---- MODULE Spec2Model ----
(***************************************************************************)
(* gmprime: Lucas-Lehmer-Riesel primality test of h*2^n-1.                 *)
(*                                                                         *)
(* The module models main() of gmprime.c (argument normalisation, trivial  *)
(* prefilter, setup, the squaring loop and the verdict), the setup library *)
(* lucas.c (gen_v1, rodseth_xhn, gen_u2) and the checkpoint subsystem      *)
(* (initialize_checkpoint, setup_checkpoint, checkpoint_needed,            *)
(* checkpoint, setup_chkpt_links, the signal handlers).                    *)
(*                                                                         *)
(* An unsigned long x is held as the integer x when x is small and as      *)
(* x - 2^64 (a small negative integer) when x is within TopK of 2^64, so   *)
(* that ++x is x + 1 with the wrap from 2^64-1 to 0, x % 2 is the parity   *)
(* of the C value, and printf's %ld prints the held integer.               *)
(***************************************************************************)
EXTENDS Integers, Sequences, FiniteSets, TLC

(***************************************************************************)
(* Bounds of the model.                                                    *)
(***************************************************************************)
MaxH == 9
MaxN == 5
TopK == 2
MaxSig == 1
MaxRuns == 4
MaxModH == 7
MaxModN == 4
MaxLucasH == 21
MaxLucasN == 6
MaxMultiple == 3
MaxResultRuns == 3
MaxNeededH == 2
MaxNeededN == 5
MaxRestoreRuns == 2
MaxSec == 1
MaxCount == 2

(***************************************************************************)
(* Program constants.                                                      *)
(***************************************************************************)
FIRST_TERM_INDEX == 2
DEF_CHKPT_SECS == 3600
CHECKPOINT_PREVIEW == 1024
CHECKPOINT_FMT_VERSION == 2
x_tbl_len == 42
next_x == 167
EXIT_IS_PRIME == 0
EXIT_IS_COMPOSITE == 1
EXIT_CANNOT_TEST == 2
EXIT_CHKPT_ACCESS == 4
EXIT_LOCKED == 5
EXIT_CANNOT_RESTORE == 6
EXIT_SIGNAL == 7
LT_ONE_H == 1
EVEN_H == 2
LT_ONE_N == 4
LT_THREE_V1 == 8
H_N_RULE_VIOL == 16

x_tbl ==
  << 3, 5, 9, 11, 15, 17, 21, 29, 27, 35, 39, 41, 31, 45, 51, 55, 49, 59, 69,
     65, 71, 57, 85, 81, 95, 99, 77, 53, 67, 125, 111, 105, 87, 129, 101, 83,
     165, 155, 149, 141, 121, 109 >>

small_h_n == { <<1, 2>> }
composite_h_n == { <<1, 1>> }

(***************************************************************************)
(* Arithmetic of the big-integer library, as the calls used compute it.    *)
(***************************************************************************)
RECURSIVE Pow2(_)
Pow2(e) == IF e <= 0 THEN 1 ELSE 2 * Pow2(e - 1)

\* mpz_fdiv_q_2exp: quotient rounded towards minus infinity
mpz_fdiv_q_2exp(a, e) == a \div Pow2(e)

\* mpz_fdiv_r_2exp: the remainder of the floor division, never negative
mpz_fdiv_r_2exp(a, e) == a % Pow2(e)

\* mpz_tdiv_qr_ui: quotient rounded towards zero, remainder with a's sign
mpz_tdiv_q_ui(a, d) == IF a >= 0 THEN a \div d ELSE -((-a) \div d)
mpz_tdiv_r_ui(a, d) == a - d * mpz_tdiv_q_ui(a, d)

\* mpz_mod: the remainder is never negative
mpz_mod(a, m) == a % m

\* mpz_jacobi(a, b) for odd b > 0: the Jacobi symbol (a/b), computed by the
\* binary algorithm with quadratic reciprocity.
RECURSIVE JacobiLoop(_, _, _)
JacobiLoop(a, b, t) ==
  IF a = 0 THEN (IF b = 1 THEN t ELSE 0)
  ELSE IF a % 2 = 0
       THEN JacobiLoop(a \div 2, b, IF b % 8 \in {3, 5} THEN -t ELSE t)
       ELSE JacobiLoop(b % a, a, IF a % 4 = 3 /\ b % 4 = 3 THEN -t ELSE t)

mpz_jacobi(a, b) == JacobiLoop(a % b, b, 1)

(***************************************************************************)
(* gmprime.c: the candidate and one pass of the loop body.                 *)
(***************************************************************************)
\* riesel_cand = h*2^n-1
RieselCand(hh, nn) == hh * Pow2(nn) - 1

\* while (mpz_cmp(u_term, riesel_cand) >= 0) mpz_sub(u_term, u_term, riesel_cand)
RECURSIVE SubtractLoop(_, _)
SubtractLoop(u, cand) == IF u >= cand THEN SubtractLoop(u - cand, cand) ELSE u

\* the number of passes of that loop
RECURSIVE SubtractCount(_, _)
SubtractCount(u, cand) == IF u >= cand THEN 1 + SubtractCount(u - cand, cand) ELSE 0

\* a reduction that does not subtract 2 from the square
ShiftAndAdd_NoSub2(u, hh, nn) ==
  LET u_term_sq == u * u
      J         == mpz_fdiv_q_2exp(u_term_sq, nn)
      J_div_h   == mpz_tdiv_q_ui(J, hh)
      J_mod_h   == mpz_tdiv_r_ui(J, hh) * Pow2(nn)
      K         == mpz_fdiv_r_2exp(u_term_sq, nn)
  IN  (J_mod_h + K) + J_div_h

\* a reduction that adds J where int(J/h) belongs
ShiftAndAdd_WholeJ(u, hh, nn) ==
  LET u_term_sq_2 == u * u - 2
      J           == mpz_fdiv_q_2exp(u_term_sq_2, nn)
      J_mod_h     == mpz_tdiv_r_ui(J, hh) * Pow2(nn)
      K           == mpz_fdiv_r_2exp(u_term_sq_2, nn)
  IN  (J_mod_h + K) + J

\* int(J/h) + (J mod h)*(2^n) + K, before the subtraction loop
ShiftAndAdd(u, hh, nn) ==
  LET u_term_sq   == u * u
      u_term_sq_2 == u_term_sq - 2
      J           == mpz_fdiv_q_2exp(u_term_sq_2, nn)
      J_div_h     == mpz_tdiv_q_ui(J, hh)
      J_mod_h     == mpz_tdiv_r_ui(J, hh) * Pow2(nn)
      K           == mpz_fdiv_r_2exp(u_term_sq_2, nn)
  IN  (J_mod_h + K) + J_div_h

\* a loop pass without its subtraction loop
ModEngine_NoReduce(u, hh, nn) == ShiftAndAdd(u, hh, nn)

\* the new u_term of one loop pass
ModEngine(u, hh, nn) == SubtractLoop(ShiftAndAdd(u, hh, nn), RieselCand(hh, nn))

(***************************************************************************)
(* unsigned long in the held form described at the top.                    *)
(***************************************************************************)
\* a < b on unsigned long
ULess(a, b) == IF (a < 0) = (b < 0) THEN a < b ELSE b < 0

\* the C value of a held unsigned long, as <<multiples of 2^64, rest>>
ULongValue(x) == << IF x < 0 THEN 1 ELSE 0, x >>

\* the number that printf's %ld writes for a held unsigned long: its signed
\* reading, which is the held integer itself
PrintLd(x) == << 0, x >>

\* while (h % 2 == 0 && h > 0) { h >>= 1; ++n; }
RECURSIVE NormalizeH(_)
NormalizeH(hh) == IF hh % 2 = 0 /\ hh > 0 THEN NormalizeH(hh \div 2) ELSE hh

RECURSIVE NormalizeShift(_)
NormalizeShift(hh) == IF hh % 2 = 0 /\ hh > 0 THEN 1 + NormalizeShift(hh \div 2) ELSE 0

(***************************************************************************)
(* lucas.c helpers.                                                        *)
(***************************************************************************)
\* HIGHBIT(h): index of the highest bit set in h (h >= 1)
RECURSIVE HIGHBIT(_)
HIGHBIT(hh) == IF hh <= 1 THEN 0 ELSE 1 + HIGHBIT(hh \div 2)

TEST_BIT(val, b) == (val \div Pow2(b)) % 2 = 1

IS_ODD(number) == number % 2 = 1

\* the k-th candidate of gen_v1's search, k = 0, 1, ...: x_tbl[k] for the
\* for loop, then next_x, next_x + 2, ... for the while loop
SearchCandidate(k) == IF k < x_tbl_len THEN x_tbl[k + 1] ELSE next_x + 2 * (k - x_tbl_len)

\* a rodseth_xhn that stops after part 1 of the condition
rodseth_xhn_Part1(x, cand) ==
  IF x <= 2 THEN 0
  ELSE IF mpz_jacobi(x - 2, cand) # 1 THEN 0
  ELSE 1

\* rodseth_xhn(x) against the global riesel_cand
rodseth_xhn(x, cand) ==
  IF x <= 2 THEN 0
  ELSE IF mpz_jacobi(x - 2, cand) # 1 THEN 0
  ELSE IF mpz_jacobi(x + 2, cand) # -1 THEN 0
  ELSE 1

\* the number of mpz_jacobi calls one rodseth_xhn(x) makes
rodseth_evals(x, cand) ==
  IF x <= 2 THEN 0
  ELSE IF mpz_jacobi(x - 2, cand) # 1 THEN 1 ELSE 2

\* a Case 1 that takes h mod 3 == 1 only
Case1_OnlyOne(hh) == hh % 3 = 1

\* gen_v1's Case 1: (h mod 3 != 0)
Case1(hh) == hh % 3 # 0

\* a pass of the bit loop that takes every bit of h as set
LadderStep_AllSet(rr, ss, set, vv1, cand) ==
  << mpz_mod(rr * ss - vv1, cand), mpz_mod(ss * ss - 2, cand) >>

\* a pass of the bit loop that takes a set bit for clear and a clear bit
\* for set
LadderStep_Exchanged(rr, ss, set, vv1, cand) ==
  IF set
  THEN << mpz_mod(rr * rr - 2, cand), mpz_mod(rr * ss - vv1, cand) >>
  ELSE << mpz_mod(rr * ss - vv1, cand), mpz_mod(ss * ss - 2, cand) >>

\* one pass of gen_u2's bit loop on << r, s >>: for a set bit
\* r = (r*s - v1) % cand and s = (s^2 - 2) % cand, for a clear bit
\* s = (r*s - v1) % cand and r = (r^2 - 2) % cand
LadderStep(rr, ss, set, vv1, cand) ==
  IF set
  THEN << mpz_mod(rr * ss - vv1, cand), mpz_mod(ss * ss - 2, cand) >>
  ELSE << mpz_mod(rr * rr - 2, cand), mpz_mod(rr * ss - vv1, cand) >>

\* fcnt(a): the power of 2 that divides a (a > 0)
RECURSIVE fcnt(_)
fcnt(a) == IF IS_ODD(a) \/ a <= 0 THEN 0 ELSE 1 + fcnt(a \div 2)

(***************************************************************************)
(* State.                                                                  *)
(*                                                                         *)
(* mode           what is running: "main" (the gmprime command),           *)
(*                "gen_u0" (one call of the setup library), "mod_engine"   *)
(*                (one pass of the loop body)                              *)
(* pc             the position of the process                              *)
(* restore, checkpoint_dir, force, multiple   the command line options     *)
(* orig_h, orig_n the h and n arguments as given                           *)
(* h, n, i, v1, u_term, riesel_cand   main()'s variables of those names    *)
(* u_prev         u_term before the latest pass of the loop body           *)
(* stdout         the lines printed                                        *)
(* exit_status    << >> while running, <<code>> once exit(code) was called *)
(* tbl_i          how many candidates gen_v1's search has rejected         *)
(* jacobi_evals   how many times mpz_jacobi was called                     *)
(* r, s, bit      gen_u2's r, s and bit counter i                          *)
(* lucas_ret      the return value of the setup library                    *)
(* files          the checkpoint directory: file name -> content           *)
(* lock_held      this process holds the lock on run.lock                  *)
(* handlers       the signal handlers are installed                        *)
(* checkpoint_alarm, checkpoint_and_end   the signal counters              *)
(* chk            the arguments of the checkpoint() call in progress       *)
(* runs           how many processes were started on the directory         *)
(* beginrun, current, restored, total   the prime_stats of checkpoint.c;   *)
(*                followed in mode "update_stats" only, where the values   *)
(*                that gettimeofday and getrusage return are drawn           *)
(***************************************************************************)
VARIABLES mode, pc, restore, checkpoint_dir, force, checkpoint_secs, multiple, orig_h, orig_n,
          h, n, i, v1, u_term, u_prev, riesel_cand, stdout, exit_status,
          tbl_i, jacobi_evals, r, s, bit, lucas_ret,
          files, lock_held, other_lock, handlers, checkpoint_alarm, checkpoint_and_end,
          chk, runs, beginrun, current, restored, total

optvars == << restore, checkpoint_dir, force, checkpoint_secs, multiple, orig_h, orig_n >>
mainvars == << h, n, i, v1, u_term, u_prev, riesel_cand >>
outvars == << stdout, exit_status >>
lucasvars == << tbl_i, jacobi_evals, r, s, bit, lucas_ret >>
chkptvars == << files, lock_held, handlers, checkpoint_alarm, checkpoint_and_end, chk >>
statvars == << beginrun, current, restored, total >>
vars == << mode, pc, optvars, mainvars, outvars, lucasvars, chkptvars, other_lock, runs,
          statvars >>

(***************************************************************************)
(* checkpoint.c: the prime_stats and update_stats().  A struct timeval is  *)
(* the pair << tv_sec, tv_usec >>.                                         *)
(***************************************************************************)
\* the microseconds in a second, of timersub and timeradd
USEC_PER_SEC == 1000000

\* timerclear(&tv)
timerclear == << 0, 0 >>

\* timercmp(&a, &b, <)
timercmp_lt(a, b) == IF a[1] = b[1] THEN a[2] < b[2] ELSE a[1] < b[1]

\* timersub(&a, &b, &res)
timersub(a, b) ==
  IF a[2] - b[2] < 0
  THEN << a[1] - b[1] - 1, a[2] - b[2] + USEC_PER_SEC >>
  ELSE << a[1] - b[1], a[2] - b[2] >>

\* timeradd(&a, &b, &res)
timeradd(a, b) ==
  IF a[2] + b[2] >= USEC_PER_SEC
  THEN << a[1] + b[1] + 1, a[2] + b[2] - USEC_PER_SEC >>
  ELSE << a[1] + b[1], a[2] + b[2] >>

\* zerosize_stats(ptr)
zerosize_stats ==
  [ now |-> timerclear, ru_utime |-> timerclear, ru_stime |-> timerclear,
    wall_clock |-> timerclear, ru_maxrss |-> 0, ru_minflt |-> 0, ru_majflt |-> 0,
    ru_inblock |-> 0, ru_oublock |-> 0, ru_nvcsw |-> 0, ru_nivcsw |-> 0 ]

\* load_prime_stats(ptr) when gettimeofday returns now and getrusage
\* returns usage
load_prime_stats(now, usage) ==
  [ now |-> now, ru_utime |-> usage.ru_utime, ru_stime |-> usage.ru_stime,
    wall_clock |-> timerclear, ru_maxrss |-> usage.ru_maxrss,
    ru_minflt |-> usage.ru_minflt, ru_majflt |-> usage.ru_majflt,
    ru_inblock |-> usage.ru_inblock, ru_oublock |-> usage.ru_oublock,
    ru_nvcsw |-> usage.ru_nvcsw, ru_nivcsw |-> usage.ru_nivcsw ]

\* the difference update_stats() adds for a time: current minus beginrun,
\* or after the warning that the time went backwards, 0
TimeUsed(cur, begin) ==
  IF ~timercmp_lt(cur, begin) THEN timersub(cur, begin) ELSE timerclear

\* total after update_stats() has loaded the statistics cur
update_stats(cur) ==
  [ now |-> cur.now,
    ru_utime |-> timeradd(restored.ru_utime, TimeUsed(cur.ru_utime, beginrun.ru_utime)),
    ru_stime |-> timeradd(restored.ru_stime, TimeUsed(cur.ru_stime, beginrun.ru_stime)),
    wall_clock |-> timeradd(restored.wall_clock, TimeUsed(cur.now, beginrun.now)),
    ru_maxrss |-> IF cur.ru_maxrss > total.ru_maxrss THEN cur.ru_maxrss ELSE total.ru_maxrss,
    ru_minflt |-> cur.ru_minflt - beginrun.ru_minflt + restored.ru_minflt,
    ru_majflt |-> cur.ru_majflt - beginrun.ru_majflt + restored.ru_majflt,
    ru_inblock |-> cur.ru_inblock - beginrun.ru_inblock + restored.ru_inblock,
    ru_oublock |-> cur.ru_oublock - beginrun.ru_oublock + restored.ru_oublock,
    ru_nvcsw |-> cur.ru_nvcsw - beginrun.ru_nvcsw + restored.ru_nvcsw,
    ru_nivcsw |-> cur.ru_nivcsw - beginrun.ru_nivcsw + restored.ru_nivcsw ]

\* the statistics are not followed
StatsUnused ==
  /\ beginrun = zerosize_stats /\ current = zerosize_stats
  /\ restored = zerosize_stats /\ total = zerosize_stats

(***************************************************************************)
(* lucas.c: gen_v1 and gen_u2, one step per search candidate and per bit   *)
(* of h.                                                                   *)
(***************************************************************************)
\* return from the setup library with an error code
LucasReturn(code) ==
  /\ lucas_ret' = code
  /\ pc' = "returned"

\* gen_v1 up to the start of the search: the argument checks and Case 1
GenV1Enter ==
  /\ pc = "gen_v1"
  /\ IF ~IS_ODD(h) THEN LucasReturn(EVEN_H) /\ UNCHANGED << v1, tbl_i >>
     ELSE IF h < 1 THEN LucasReturn(LT_ONE_H) /\ UNCHANGED << v1, tbl_i >>
     ELSE IF ULess(n, 1) THEN LucasReturn(LT_ONE_N) /\ UNCHANGED << v1, tbl_i >>
     ELSE IF Case1(h)
          THEN /\ v1' = 4
               /\ pc' = "gen_u2"
               /\ UNCHANGED << lucas_ret, tbl_i >>
          ELSE /\ tbl_i' = 0
               /\ pc' = "gen_v1_search"
               /\ UNCHANGED << lucas_ret, v1 >>
  /\ UNCHANGED << mode, statvars, other_lock, optvars, h, n, i, u_term, u_prev, riesel_cand, outvars,
                  jacobi_evals, r, s, bit, chkptvars, runs >>

\* gen_v1, Case 2: one candidate x of the search is tried with rodseth_xhn
GenV1Search ==
  /\ pc = "gen_v1_search"
  /\ LET x == SearchCandidate(tbl_i)
     IN  /\ jacobi_evals' = jacobi_evals + rodseth_evals(x, riesel_cand)
         /\ IF rodseth_xhn(x, riesel_cand) = 1
            THEN /\ v1' = x
                 /\ pc' = "gen_u2"
                 /\ UNCHANGED tbl_i
            ELSE /\ tbl_i' = tbl_i + 1
                 /\ UNCHANGED << v1, pc >>
  /\ UNCHANGED << mode, statvars, other_lock, optvars, h, n, i, u_term, u_prev, riesel_cand, outvars,
                  r, s, bit, lucas_ret, chkptvars, runs >>

\* where the setup library returns to on success
SetupDone == IF mode = "main" THEN "setup_done" ELSE "returned"

\* gen_u2 up to the bit loop: argument checks, r = v1, s = r^2 - 2, and the
\* h == 1 special case
GenU2Enter ==
  /\ pc = "gen_u2"
  /\ LET shiftdown == fcnt(h)
         hh        == h \div Pow2(shiftdown)
         nn        == n + shiftdown
         hbits     == HIGHBIT(hh)
     IN  IF ULess(n, 1) THEN LucasReturn(LT_ONE_N) /\ UNCHANGED << r, s, bit, u_term >>
         ELSE IF v1 < 3 THEN LucasReturn(LT_THREE_V1) /\ UNCHANGED << r, s, bit, u_term >>
         ELSE IF hh <= 0 \/ ULess(nn, 1) THEN LucasReturn(H_N_RULE_VIOL) /\ UNCHANGED << r, s, bit, u_term >>
         ELSE IF ~ULess(hbits, nn) THEN LucasReturn(H_N_RULE_VIOL) /\ UNCHANGED << r, s, bit, u_term >>
         ELSE /\ r' = v1
              /\ s' = v1 * v1 - 2
              /\ IF hh = 1
                 THEN /\ u_term' = mpz_mod(v1, riesel_cand)
                      /\ lucas_ret' = 0
                      /\ pc' = SetupDone
                      /\ UNCHANGED bit
                 ELSE /\ bit' = hbits - 1
                      /\ pc' = "gen_u2_loop"
                      /\ UNCHANGED << u_term, lucas_ret >>
  /\ UNCHANGED << mode, statvars, other_lock, optvars, h, n, i, v1, u_prev, riesel_cand, outvars,
                  tbl_i, jacobi_evals, chkptvars, runs >>

\* gen_u2: one pass of the bit loop, or, when the loop is over, the final
\* step for bit 0 and the return
GenU2Loop ==
  /\ pc = "gen_u2_loop"
  /\ IF bit > 0
     THEN /\ r' = LadderStep(r, s, TEST_BIT(h, bit), v1, riesel_cand)[1]
          /\ s' = LadderStep(r, s, TEST_BIT(h, bit), v1, riesel_cand)[2]
          /\ bit' = bit - 1
          /\ UNCHANGED << u_term, lucas_ret, pc >>
     ELSE /\ r' = mpz_mod(r * s - v1, riesel_cand)
          /\ u_term' = r'
          /\ lucas_ret' = 0
          /\ pc' = SetupDone
          /\ UNCHANGED << s, bit >>
  /\ UNCHANGED << mode, statvars, other_lock, optvars, h, n, i, v1, u_prev, riesel_cand, outvars,
                  tbl_i, jacobi_evals, chkptvars, runs >>

(***************************************************************************)
(* The checkpoint directory.                                               *)
(***************************************************************************)
LOCK_FILE == "run.lock"
CHKPT_CUR_FILE == "chk.cur.pt"
CHKPT_PREV0_FILE == "chk.prev-0.pt"
CHKPT_PREV1_FILE == "chk.prev-1.pt"
CHKPT_PREV2_FILE == "chk.prev-2.pt"
SAVE_FIRST_FILE == "sav.u2.pt"
SAVE_NEAR_FILE == "sav.near.pt"
SAVE_N1_FILE == "sav.n-1.pt"
SAVE_END_FILE == "sav.end.pt"
RESULT_PRIME_FILE == "result.prime.pt"
RESULT_COMPOSITE_FILE == "result.composite.pt"
RESULT_ERROR_FILE == "result.error.pt"

FileNames ==
  { LOCK_FILE, CHKPT_CUR_FILE, CHKPT_PREV0_FILE, CHKPT_PREV1_FILE, CHKPT_PREV2_FILE,
    SAVE_FIRST_FILE, SAVE_NEAR_FILE, SAVE_N1_FILE, SAVE_END_FILE,
    RESULT_PRIME_FILE, RESULT_COMPOSITE_FILE, RESULT_ERROR_FILE }

\* an order of writes with the sentinel before u_term
CheckpointRecords_SentinelEarly ==
  << "version", "hostname", "cwd", "checkpoint_dir", "pid", "ppid",
     "n", "h", "i", "v1", "beginrun", "current", "restored", "total",
     "complete", "u_term" >>

\* the records checkpoint() writes, in the order of its write calls
CheckpointRecords ==
  << "version", "hostname", "cwd", "checkpoint_dir", "pid", "ppid",
     "n", "h", "i", "v1", "beginrun", "current", "restored", "total",
     "u_term", "complete" >>

\* the records setup_checkpoint() writes into the lock file
LockRecords ==
  << "version", "hostname", "cwd", "checkpoint_dir", "pid", "ppid",
     "locktime", "complete" >>

\* a name with no file behind it.  A file is its inode (ino, shared by the
\* hard links to it), the records written so far (recs), the process that
\* wrote it (pid) and the values its n, h, i, v1 and u_term records carry.
NoFile ==
  [ ino |-> << >>, pid |-> 0, recs |-> << >>, h |-> 0, n |-> 0, i |-> 0, v1 |-> 0, u |-> 0 ]

\* access(name, F_OK) == 0
Exists(name) == files[name].ino # << >>

\* the file has the record
HasRecord(f, rec) == \E k \in 1..Len(f.recs) : f.recs[k] = rec

\* a removal that takes every file of the directory
Unlink_Everything(dir, names) == [ name \in FileNames |-> NoFile ]

\* unlink(name) of every name in the set
Unlink(dir, names) == [ name \in FileNames |-> IF name \in names THEN NoFile ELSE dir[name] ]

\* a rename that leaves the file under its old name as well
Rename_Copy(dir, from, to) ==
  IF dir[from].ino # << >>
  THEN [ dir EXCEPT ![to] = dir[from] ]
  ELSE dir

\* rename(from, to) when from exists, nothing otherwise
Rename(dir, from, to) ==
  IF dir[from].ino # << >>
  THEN [ dir EXCEPT ![to] = dir[from], ![from] = NoFile ]
  ELSE dir

(***************************************************************************)
(* gmprime.c: main().                                                      *)
(***************************************************************************)
Ended == { "done", "aborted", "crashed", "returned" }

\* exit(code)
Exit(code) ==
  /\ pc' = "done"
  /\ exit_status' = << code >>

\* a lock that stays behind when the process ends
KeepUntilEnd_LockStays ==
  /\ lock_held' = lock_held
  /\ handlers' = (handlers /\ pc' \notin Ended)

\* the process keeps its lock and its handlers until it ends
KeepUntilEnd ==
  /\ lock_held' = (lock_held /\ pc' \notin Ended)
  /\ handlers' = (handlers /\ pc' \notin Ended)

\* a verdict line that names the odd h and its n instead of the arguments
VerdictLine_Normalized(text) == [ h |-> PrintLd(h), n |-> PrintLd(n), verdict |-> text ]

\* the line "<h> * 2 ^ <n> - 1 is prime" or "... is composite", printed with %ld
VerdictLine(text) == [ h |-> PrintLd(orig_h), n |-> PrintLd(orig_n), verdict |-> text ]

\* restore_checkpoint() is not written: it ends the process with status 88.
\* Otherwise h and n are made into an odd h: orig_h = h; orig_n = n;
\* while (h % 2 == 0 && h > 0) { h >>= 1; ++n; }
Startup ==
  /\ pc = "start"
  /\ IF restore
     THEN /\ Exit(88)
          /\ UNCHANGED << h, n >>
     ELSE /\ h' = NormalizeH(orig_h)
          /\ n' = orig_n + NormalizeShift(orig_h)
          /\ IF h' <= 0
             THEN Exit(EXIT_CANNOT_TEST)
             ELSE /\ pc' = "prefilter"
                  /\ UNCHANGED exit_status
  /\ KeepUntilEnd
  /\ UNCHANGED << mode, statvars, other_lock, optvars, i, v1, u_term, u_prev, riesel_cand, stdout,
                  lucasvars, files, checkpoint_alarm, checkpoint_and_end, chk, runs >>

\* trivial tests whose multiple of 3 test has the parities of n exchanged
TrivialVerdict_Swapped(hh, nn) ==
  IF << hh, nn >> \in small_h_n THEN "is prime"
  ELSE IF << hh, nn >> \in composite_h_n THEN "is composite"
  ELSE IF (hh % 3 = 1 /\ nn % 2 = 1) \/ (hh % 3 = 2 /\ nn % 2 = 0) THEN "is composite"
  ELSE ""

\* the verdict of the trivial tests, "" when they do not decide
TrivialVerdict(hh, nn) ==
  IF << hh, nn >> \in small_h_n THEN "is prime"
  ELSE IF << hh, nn >> \in composite_h_n THEN "is composite"
  ELSE IF (hh % 3 = 1 /\ nn % 2 = 0) \/ (hh % 3 = 2 /\ nn % 2 = 1) THEN "is composite"
  ELSE ""

\* the trivial tests: the verdict is printed, then with a checkpoint
\* directory checkpoint(checkpoint_dir, false, h, n, n, 0, zero or non_zero)
\* is called, then the process exits
Prefilter ==
  /\ pc = "prefilter"
  /\ LET verdict == TrivialVerdict(h, n)
         code    == IF verdict = "is prime" THEN EXIT_IS_PRIME ELSE EXIT_IS_COMPOSITE
     IN  IF verdict = ""
         THEN /\ pc' = "initialize_checkpoint"
              /\ UNCHANGED << stdout, exit_status, chk >>
         ELSE /\ stdout' = Append(stdout, VerdictLine(verdict))
              /\ IF checkpoint_dir # "NULL"
                 THEN /\ chk' = [ valid_test |-> FALSE, i |-> n, v1 |-> 0,
                                  u |-> IF verdict = "is prime" THEN 0 ELSE 1,
                                  ret |-> verdict ]
                      /\ pc' = "checkpoint"
                      /\ UNCHANGED exit_status
                 ELSE /\ Exit(code)
                      /\ UNCHANGED chk
  /\ KeepUntilEnd
  /\ UNCHANGED << mode, statvars, other_lock, optvars, mainvars, lucasvars, files, checkpoint_alarm,
                  checkpoint_and_end, runs >>

\* what setup_checkpoint() can meet: the directory is usable and unlocked,
\* it cannot be made or accessed, or another process holds the lock
DirOutcomes == { "ok", "noaccess", "locked" }

\* flock(fd, LOCK_EX|LOCK_NB) whose failure is taken for success
SetupOutcomes_NoFlock(held) == { "noaccess", "ok" }

\* what setup_checkpoint() meets when another process holds, or does not
\* hold, the lock on run.lock: flock(fd, LOCK_EX|LOCK_NB) fails with
\* EWOULDBLOCK exactly when the lock is held
SetupOutcomes(held) == IF held THEN { "noaccess", "locked" } ELSE { "noaccess", "ok" }

\* removals of -i that leave the result files in the directory
ForcedRemovals_KeepResults ==
  { SAVE_END_FILE, SAVE_FIRST_FILE, CHKPT_CUR_FILE, CHKPT_PREV0_FILE,
    CHKPT_PREV1_FILE, CHKPT_PREV2_FILE, SAVE_NEAR_FILE, SAVE_N1_FILE }

\* the files initialize_checkpoint() removes when forced (-i)
ForcedRemovals ==
  { RESULT_PRIME_FILE, RESULT_COMPOSITE_FILE, RESULT_ERROR_FILE, SAVE_END_FILE,
    SAVE_FIRST_FILE, CHKPT_CUR_FILE, CHKPT_PREV0_FILE, CHKPT_PREV1_FILE,
    CHKPT_PREV2_FILE, SAVE_NEAR_FILE, SAVE_N1_FILE }

\* removals that do not ask whether -i was given
InitialRemovals_Always(forced) == ForcedRemovals

\* the names initialize_checkpoint() unlinks: each removal stands under
\* if (force), so without -i nothing is removed
InitialRemovals(forced) == IF forced THEN ForcedRemovals ELSE { }

\* the tests with the statuses of the two proven results exchanged
TerminalStatus_Exchanged ==
  IF Exists(RESULT_PRIME_FILE) THEN << EXIT_IS_COMPOSITE >>
  ELSE IF Exists(RESULT_COMPOSITE_FILE) THEN << EXIT_IS_PRIME >>
  ELSE IF Exists(RESULT_ERROR_FILE) THEN << EXIT_CANNOT_RESTORE >>
  ELSE IF Exists(SAVE_END_FILE) THEN << EXIT_CANNOT_RESTORE >>
  ELSE << >>

\* the status initialize_checkpoint() ends the process with when it is not
\* forced and the directory holds a result file or sav.end.pt, in the order
\* of its access() tests; << >> when it holds none of them
TerminalStatus ==
  IF Exists(RESULT_PRIME_FILE) THEN << EXIT_IS_PRIME >>
  ELSE IF Exists(RESULT_COMPOSITE_FILE) THEN << EXIT_IS_COMPOSITE >>
  ELSE IF Exists(RESULT_ERROR_FILE) THEN << EXIT_CANNOT_RESTORE >>
  ELSE IF Exists(SAVE_END_FILE) THEN << EXIT_CANNOT_RESTORE >>
  ELSE << >>

\* initialize_checkpoint(checkpoint_dir, checkpoint_secs, h, n, force), which
\* main() calls before it forms riesel_cand: the firewall on h and n,
\* setup_checkpoint() (directory, run.lock opened with O_TRUNC, flock, the
\* lock records, the signal handlers), the result.* and sav.end.pt tests and
\* the removals of -i
InitializeCheckpoint ==
  /\ pc = "initialize_checkpoint"
  /\ IF checkpoint_dir = "NULL"
     THEN /\ pc' = "candidate"
          /\ UNCHANGED << exit_status, files, lock_held, handlers,
                          checkpoint_alarm, checkpoint_and_end >>
     ELSE IF h < 1 \/ ULess(n, 2)
     THEN /\ Exit(83)
          /\ UNCHANGED << files, lock_held, handlers, checkpoint_alarm, checkpoint_and_end >>
     ELSE \E outcome \in DirOutcomes \cap SetupOutcomes(other_lock) :
       LET opened    == [ files EXCEPT ![LOCK_FILE] = [ NoFile EXCEPT !.ino = << 0, 0 >> ] ]
           locked    == [ opened EXCEPT ![LOCK_FILE].recs = LockRecords,
                                        ![LOCK_FILE].pid = runs ]
           cleared   == Unlink(locked, InitialRemovals(force))
       IN  IF outcome = "noaccess"
           THEN /\ Exit(EXIT_CHKPT_ACCESS)
                /\ UNCHANGED << files, lock_held, handlers,
                                checkpoint_alarm, checkpoint_and_end >>
           ELSE IF outcome = "locked"
           THEN /\ Exit(EXIT_LOCKED)
                /\ files' = opened
                /\ UNCHANGED << lock_held, handlers, checkpoint_alarm, checkpoint_and_end >>
           ELSE /\ checkpoint_alarm' = 0
                /\ checkpoint_and_end' = 0
                /\ files' = cleared
                /\ IF force \/ TerminalStatus = << >>
                   THEN /\ pc' = "candidate"
                        /\ UNCHANGED exit_status
                   ELSE Exit(TerminalStatus[1])
                /\ lock_held' = (pc' \notin Ended)
                /\ handlers' = (pc' \notin Ended)
  /\ UNCHANGED << mode, statvars, other_lock, optvars, mainvars, stdout, lucasvars, chk, runs >>

\* riesel_cand = h*2^n-1, the test that h < 2^n, and i = FIRST_TERM_INDEX.
\* mpz_ui_pow_ui(pow_2, 2, n) of an n next to 2^64 asks for a number the
\* library cannot hold, and the library aborts the process.
ComputeCandidate ==
  /\ pc = "candidate"
  /\ IF n < 0
     THEN /\ pc' = "aborted"
          /\ UNCHANGED << riesel_cand, i, exit_status >>
     ELSE /\ riesel_cand' = RieselCand(h, n)
          /\ IF Pow2(n) < h
             THEN /\ Exit(EXIT_CANNOT_TEST)
                  /\ UNCHANGED i
             ELSE /\ i' = FIRST_TERM_INDEX
                  /\ pc' = "gen_v1"
                  /\ UNCHANGED exit_status
  /\ KeepUntilEnd
  /\ UNCHANGED << mode, statvars, other_lock, optvars, h, n, v1, u_term, u_prev, stdout, lucasvars,
                  files, checkpoint_alarm, checkpoint_and_end, chk, runs >>

\* after the setup: with a checkpoint directory,
\* checkpoint(checkpoint_dir, true, h, n, i, v1, u_term)
InitialCheckpoint ==
  /\ pc = "setup_done"
  /\ IF checkpoint_dir # "NULL"
     THEN /\ chk' = [ valid_test |-> TRUE, i |-> i, v1 |-> v1, u |-> u_term, ret |-> "loop" ]
          /\ pc' = "checkpoint"
     ELSE /\ pc' = "loop"
          /\ UNCHANGED chk
  /\ UNCHANGED << mode, statvars, other_lock, optvars, mainvars, outvars, lucasvars, files, lock_held,
                  handlers, checkpoint_alarm, checkpoint_and_end, runs >>

\* checkpoint_needed without its test of i == (n-CHECKPOINT_PREVIEW)
checkpoint_needed_NoPreview(hh, nn, ii, mult) ==
  \/ checkpoint_alarm # 0
  \/ checkpoint_and_end # 0
  \/ hh < 1
  \/ ULess(nn, 2)
  \/ ULess(ii, FIRST_TERM_INDEX)
  \/ ULess(nn, ii)
  \/ ii = FIRST_TERM_INDEX
  \/ ii = nn - 1
  \/ ii = nn
  \/ (mult > 0 /\ ii % mult = 0)

\* checkpoint_needed without its test of checkpoint_and_end
checkpoint_needed_NoEnd(hh, nn, ii, mult) ==
  \/ checkpoint_alarm # 0
  \/ hh < 1
  \/ ULess(nn, 2)
  \/ ULess(ii, FIRST_TERM_INDEX)
  \/ ULess(nn, ii)
  \/ ii = FIRST_TERM_INDEX
  \/ ii = nn - CHECKPOINT_PREVIEW
  \/ ii = nn - 1
  \/ ii = nn
  \/ (mult > 0 /\ ii % mult = 0)

\* checkpoint_needed(h, n, i, multiple)
checkpoint_needed(hh, nn, ii, mult) ==
  \/ checkpoint_alarm # 0
  \/ checkpoint_and_end # 0
  \/ hh < 1
  \/ ULess(nn, 2)
  \/ ULess(ii, FIRST_TERM_INDEX)
  \/ ULess(nn, ii)
  \/ ii = FIRST_TERM_INDEX
  \/ ii = nn - CHECKPOINT_PREVIEW
  \/ ii = nn - 1
  \/ ii = nn
  \/ (mult > 0 /\ ii % mult = 0)

\* a pass of the loop that leaves i as it is
LoopIteration_NoAdvance ==
  /\ pc = "loop"
  /\ ULess(i, n)
  /\ u_prev' = u_term
  /\ u_term' = ModEngine(u_term, h, n)
  /\ IF checkpoint_dir # "NULL" /\ checkpoint_needed(h, n, i, multiple)
     THEN /\ chk' = [ valid_test |-> TRUE, i |-> i, v1 |-> v1, u |-> u_term', ret |-> "loop" ]
          /\ pc' = "checkpoint"
     ELSE UNCHANGED << chk, pc >>
  /\ UNCHANGED << mode, statvars, other_lock, optvars, h, n, i, v1, riesel_cand, outvars, lucasvars,
                  files, lock_held, handlers, checkpoint_alarm, checkpoint_and_end, runs >>

\* one pass of while (i < n): ++i, the new u_term, and the checkpoint when
\* there is a directory and checkpoint_needed() says so
LoopIteration ==
  /\ pc = "loop"
  /\ ULess(i, n)
  /\ i' = i + 1
  /\ u_prev' = u_term
  /\ u_term' = ModEngine(u_term, h, n)
  /\ IF checkpoint_dir # "NULL" /\ checkpoint_needed(h, n, i', multiple)
     THEN /\ chk' = [ valid_test |-> TRUE, i |-> i', v1 |-> v1, u |-> u_term', ret |-> "loop" ]
          /\ pc' = "checkpoint"
     ELSE UNCHANGED << chk, pc >>
  /\ UNCHANGED << mode, statvars, other_lock, optvars, h, n, v1, riesel_cand, outvars, lucasvars, files,
                  lock_held, handlers, checkpoint_alarm, checkpoint_and_end, runs >>

\* after the loop: h*2^n-1 is prime if and only if u(n) == 0
Verdict ==
  /\ pc = "loop"
  /\ ~ULess(i, n)
  /\ IF u_term = 0
     THEN /\ stdout' = Append(stdout, VerdictLine("is prime"))
          /\ Exit(EXIT_IS_PRIME)
     ELSE /\ stdout' = Append(stdout, VerdictLine("is composite"))
          /\ Exit(EXIT_IS_COMPOSITE)
  /\ KeepUntilEnd
  /\ UNCHANGED << mode, statvars, other_lock, optvars, mainvars, lucasvars, files, checkpoint_alarm,
                  checkpoint_and_end, chk, runs >>

(***************************************************************************)
(* checkpoint(checkpoint_dir, valid_test, h, n, i, v1, u_term), one step    *)
(* per system call that changes the directory.                             *)
(***************************************************************************)
\* the firewall of checkpoint(): TRUE when the arguments are refused
CheckpointFirewall(dir, valid_test, hh, nn, ii, vv1) ==
  \/ dir = "NULL"
  \/ hh < 1
  \/ ULess(nn, 2)
  \/ valid_test /\ (ULess(ii, 2) \/ ULess(nn, ii) \/ ULess(vv1, 3))
  \/ ~valid_test /\ (ii # 0 \/ vv1 # 0)

\* checkpoint() is entered: the firewall
Checkpoint ==
  /\ pc = "checkpoint"
  /\ IF CheckpointFirewall(checkpoint_dir, chk.valid_test, h, n, chk.i, chk.v1)
     THEN Exit(87)
     ELSE pc' = "rotate_prev1" /\ UNCHANGED exit_status
  /\ KeepUntilEnd
  /\ UNCHANGED << mode, statvars, other_lock, optvars, mainvars, stdout, lucasvars, files,
                  checkpoint_alarm, checkpoint_and_end, chk, runs >>

\* the variables a rename of the rotation leaves alone
RotateFrame ==
  UNCHANGED << mode, statvars, other_lock, optvars, mainvars, outvars, lucasvars, lock_held, handlers,
               checkpoint_alarm, checkpoint_and_end, chk, runs >>

\* mv -f chk.prev-1.pt chk.prev-2.pt, when chk.prev-1.pt exists
RotatePrev1 ==
  /\ pc = "rotate_prev1"
  /\ files' = Rename(files, CHKPT_PREV1_FILE, CHKPT_PREV2_FILE)
  /\ pc' = "rotate_prev0"
  /\ RotateFrame

\* mv -f chk.prev-0.pt chk.prev-1.pt, when chk.prev-0.pt exists
RotatePrev0 ==
  /\ pc = "rotate_prev0"
  /\ files' = Rename(files, CHKPT_PREV0_FILE, CHKPT_PREV1_FILE)
  /\ pc' = "rotate_cur"
  /\ RotateFrame

\* mv -f chk.cur.pt chk.prev-0.pt, when chk.cur.pt exists
RotateCur ==
  /\ pc = "rotate_cur"
  /\ files' = Rename(files, CHKPT_CUR_FILE, CHKPT_PREV0_FILE)
  /\ pc' = "create_cur"
  /\ RotateFrame

\* a checkpoint file whose u_term record is the term before the current one
CheckpointFile_Stale(k) ==
  [ ino |-> << runs, chk.i >>, pid |-> runs, recs |-> SubSeq(CheckpointRecords, 1, k),
    h |-> h, n |-> n, i |-> chk.i, v1 |-> chk.v1, u |-> u_prev ]

\* what the file of this checkpoint() call holds once its first k records
\* are in it
CheckpointFile(k) ==
  [ ino |-> << runs, chk.i >>, pid |-> runs, recs |-> SubSeq(CheckpointRecords, 1, k),
    h |-> h, n |-> n, i |-> chk.i, v1 |-> chk.v1, u |-> chk.u ]

\* open(CHKPT_CUR_FILE, O_WRONLY|O_CREAT|O_EXCL, CHKPT_FILE_MODE)
CreateCur ==
  /\ pc = "create_cur"
  /\ IF Exists(CHKPT_CUR_FILE)
     THEN /\ Exit(EXIT_CHKPT_ACCESS)
          /\ UNCHANGED files
     ELSE /\ files' = [ files EXCEPT ![CHKPT_CUR_FILE] = CheckpointFile(0) ]
          /\ pc' = "write_cur"
          /\ UNCHANGED exit_status
  /\ KeepUntilEnd
  /\ UNCHANGED << mode, statvars, other_lock, optvars, mainvars, stdout, lucasvars,
                  checkpoint_alarm, checkpoint_and_end, chk, runs >>

\* a write that leaves u_term cleared behind it
WriteCur_TakesTerm ==
  /\ pc = "write_cur"
  /\ files' = [ files EXCEPT ![CHKPT_CUR_FILE] = CheckpointFile(Len(CheckpointRecords)) ]
  /\ pc' = "setup_chkpt_links"
  /\ u_term' = 0
  /\ UNCHANGED << mode, statvars, other_lock, optvars, h, n, i, v1, u_prev, riesel_cand, outvars,
                  lucasvars, lock_held, handlers, checkpoint_alarm, checkpoint_and_end,
                  chk, runs >>

\* the records are written, from version to the complete sentinel, the
\* stream is flushed and closed
WriteCur ==
  /\ pc = "write_cur"
  /\ files' = [ files EXCEPT ![CHKPT_CUR_FILE] = CheckpointFile(Len(CheckpointRecords)) ]
  /\ pc' = "setup_chkpt_links"
  /\ UNCHANGED << mode, statvars, other_lock, optvars, mainvars, outvars, lucasvars, lock_held, handlers,
                  checkpoint_alarm, checkpoint_and_end, chk, runs >>

\* setup_chkpt_links with the two result files exchanged
LinkTarget_Swapped(nn, ii, u) ==
  IF ~Exists(CHKPT_CUR_FILE) THEN ""
  ELSE IF ii = 0 THEN ""
  ELSE IF ~ULess(ii, nn) THEN (IF u = 0 THEN RESULT_COMPOSITE_FILE ELSE RESULT_PRIME_FILE)
  ELSE IF ii = nn - 1 THEN SAVE_N1_FILE
  ELSE IF ii = nn - CHECKPOINT_PREVIEW THEN SAVE_NEAR_FILE
  ELSE IF ii = FIRST_TERM_INDEX THEN SAVE_FIRST_FILE
  ELSE ""

\* the name setup_chkpt_links(h, n, i, u_term) links chk.cur.pt to first,
\* "" when it links nothing
LinkTarget(nn, ii, u) ==
  IF ~Exists(CHKPT_CUR_FILE) THEN ""
  ELSE IF ii = 0 THEN ""
  ELSE IF ~ULess(ii, nn) THEN (IF u = 0 THEN RESULT_PRIME_FILE ELSE RESULT_COMPOSITE_FILE)
  ELSE IF ii = nn - 1 THEN SAVE_N1_FILE
  ELSE IF ii = nn - CHECKPOINT_PREVIEW THEN SAVE_NEAR_FILE
  ELSE IF ii = FIRST_TERM_INDEX THEN SAVE_FIRST_FILE
  ELSE ""

\* a link that takes the place of the file that has the name
Link_Overwrites(name, next) ==
  /\ IF name = ""
     THEN /\ pc' = next
          /\ UNCHANGED << files, exit_status >>
     ELSE /\ files' = [ files EXCEPT ![name] = files[CHKPT_CUR_FILE] ]
          /\ pc' = next
          /\ UNCHANGED exit_status
  /\ KeepUntilEnd
  /\ UNCHANGED << mode, statvars, other_lock, optvars, mainvars, stdout, lucasvars,
                  checkpoint_alarm, checkpoint_and_end, chk, runs >>

\* link(CHKPT_CUR_FILE, name): it fails when name exists, and the process
\* ends with status 86
Link(name, next) ==
  /\ IF name = ""
     THEN /\ pc' = next
          /\ UNCHANGED << files, exit_status >>
     ELSE IF Exists(name)
     THEN /\ Exit(86)
          /\ UNCHANGED files
     ELSE /\ files' = [ files EXCEPT ![name] = files[CHKPT_CUR_FILE] ]
          /\ pc' = next
          /\ UNCHANGED exit_status
  /\ KeepUntilEnd
  /\ UNCHANGED << mode, statvars, other_lock, optvars, mainvars, stdout, lucasvars,
                  checkpoint_alarm, checkpoint_and_end, chk, runs >>

\* setup_chkpt_links(): the first link
SetupChkptLinks ==
  /\ pc = "setup_chkpt_links"
  /\ LET name == LinkTarget(n, chk.i, chk.u)
     IN  Link(name, IF name \in { RESULT_PRIME_FILE, RESULT_COMPOSITE_FILE }
                    THEN "link_end" ELSE "checkpoint_end")

\* setup_chkpt_links(): after a result link, the link to sav.end.pt
LinkEnd ==
  /\ pc = "link_end"
  /\ Link(SAVE_END_FILE, "checkpoint_end")

\* the end of checkpoint(): checkpoint_alarm is cleared, a recorded SIGINT or
\* SIGHUP ends the process with EXIT_SIGNAL, otherwise checkpoint() returns,
\* to the loop or to the exit that follows a trivial verdict
CheckpointEnd ==
  /\ pc = "checkpoint_end"
  /\ checkpoint_alarm' = 0
  /\ IF checkpoint_and_end # 0 THEN Exit(EXIT_SIGNAL)
     ELSE IF chk.ret = "loop" THEN pc' = "loop" /\ UNCHANGED exit_status
     ELSE IF chk.ret = "is prime" THEN Exit(EXIT_IS_PRIME)
     ELSE Exit(EXIT_IS_COMPOSITE)
  /\ KeepUntilEnd
  /\ UNCHANGED << mode, statvars, other_lock, optvars, mainvars, stdout, lucasvars, files,
                  checkpoint_and_end, chk, runs >>

(***************************************************************************)
(* Signals.                                                                *)
(***************************************************************************)
\* the signals record_sigalarm() is the handler of
AlarmSignals == { "SIGALRM", "SIGVTALRM" }

\* record_sigalarm(): SIGALRM arrives, sent by another process, or SIGVTALRM
\* arrives, from the ITIMER_VIRTUAL timer that setup_checkpoint() arms with
\* the handlers when checkpoint_secs > 0
RecordSigalarm ==
  /\ handlers
  /\ \E signum \in AlarmSignals : signum = "SIGVTALRM" => checkpoint_secs > 0
  /\ checkpoint_alarm < MaxSig
  /\ checkpoint_alarm' = checkpoint_alarm + 1
  /\ UNCHANGED << mode, statvars, other_lock, pc, optvars, mainvars, outvars, lucasvars, files, lock_held,
                  handlers, checkpoint_and_end, chk, runs >>

\* a handler of SIGINT and SIGHUP that takes a recorded alarm away
RecordSigint_ClearsAlarm ==
  /\ handlers
  /\ checkpoint_and_end < MaxSig
  /\ checkpoint_and_end' = checkpoint_and_end + 1
  /\ checkpoint_alarm' = 0
  /\ UNCHANGED << mode, statvars, other_lock, pc, optvars, mainvars, outvars, lucasvars, files, lock_held,
                  handlers, chk, runs >>

\* record_sigint() and record_sighup(): SIGINT or SIGHUP arrives
RecordSigint ==
  /\ handlers
  /\ checkpoint_and_end < MaxSig
  /\ checkpoint_and_end' = checkpoint_and_end + 1
  /\ UNCHANGED << mode, statvars, other_lock, pc, optvars, mainvars, outvars, lucasvars, files, lock_held,
                  handlers, checkpoint_alarm, chk, runs >>

(***************************************************************************)
(* One pass of the loop body on its own.                                   *)
(***************************************************************************)
ModEngineStep ==
  /\ pc = "mod_engine"
  /\ u_prev' = u_term
  /\ u_term' = ModEngine(u_term, h, n)
  /\ pc' = "returned"
  /\ UNCHANGED << mode, statvars, other_lock, optvars, h, n, i, v1, riesel_cand, outvars, lucasvars,
                  chkptvars, runs >>

(***************************************************************************)
(* The process is killed, and a new process is started on the directory.   *)
(***************************************************************************)
\* no call of checkpoint() is in progress
NoCall == [ valid_test |-> FALSE, i |-> 0, v1 |-> 0, u |-> 0, ret |-> "" ]

\* the memory of a process that is no more, or not yet: nothing of main()'s
\* variables, of its output, of its lock and of its handlers is left
ProcessGone ==
  /\ h' = 0 /\ n' = 0 /\ i' = 0 /\ v1' = 0 /\ u_term' = 0 /\ u_prev' = 0 /\ riesel_cand' = 0
  /\ stdout' = << >> /\ exit_status' = << >>
  /\ tbl_i' = 0 /\ jacobi_evals' = 0 /\ r' = 0 /\ s' = 0 /\ bit' = 0 /\ lucas_ret' = 0
  /\ lock_held' = FALSE /\ handlers' = FALSE
  /\ checkpoint_alarm' = 0 /\ checkpoint_and_end' = 0
  /\ chk' = NoCall

\* the process dies where it stands.  Its memory and its lock go with it.
\* A checkpoint file that was created and is being written stays with the
\* records that reached the disk: the first k of them, for a k in cuts.
Crash(cuts) ==
  /\ mode = "main"
  /\ pc \notin Ended
  /\ pc' = "crashed"
  /\ IF pc = "write_cur"
     THEN \E k \in cuts : files' = [ files EXCEPT ![CHKPT_CUR_FILE] = CheckpointFile(k) ]
     ELSE UNCHANGED files
  /\ ProcessGone
  /\ UNCHANGED << mode, statvars, other_lock, optvars, runs >>

\* the variables of a process that has not yet run
FreshProcess ==
  /\ h = 0 /\ n = 0 /\ i = 0 /\ v1 = 0 /\ u_term = 0 /\ u_prev = 0 /\ riesel_cand = 0
  /\ stdout = << >> /\ exit_status = << >>
  /\ tbl_i = 0 /\ jacobi_evals = 0 /\ r = 0 /\ s = 0 /\ bit = 0 /\ lucas_ret = 0
  /\ lock_held = FALSE /\ handlers = FALSE
  /\ checkpoint_alarm = 0 /\ checkpoint_and_end = 0
  /\ chk = NoCall

\* gmprime is run again on the same directory once the process before it
\* has ended, with -i or without
Rerun(hs, ns, forces) ==
  /\ mode = "main"
  /\ pc \in Ended
  /\ runs < MaxRuns
  /\ runs' = runs + 1
  /\ pc' = "start"
  /\ orig_h' \in hs
  /\ orig_n' \in ns
  /\ force' \in forces
  /\ ProcessGone
  /\ UNCHANGED << mode, statvars, other_lock, restore, checkpoint_dir, checkpoint_secs,
                  multiple, files >>

\* gmprime is run again with the options of the run before
Restart(hs, ns) == Rerun(hs, ns, { force })

(***************************************************************************)
(* One call of checkpoint_needed() on its own.                             *)
(***************************************************************************)
CheckpointNeededCall ==
  /\ pc = "checkpoint_needed"
  /\ pc' = IF checkpoint_needed(h, n, i, multiple) THEN "return_true" ELSE "return_false"
  /\ UNCHANGED << mode, statvars, other_lock, optvars, mainvars, outvars, lucasvars, chkptvars, runs >>

(***************************************************************************)
(* Another gmprime process on the same checkpoint directory.               *)
(***************************************************************************)
\* the other process calls setup_checkpoint(): run.lock is opened with
\* O_TRUNC, then flock(fd, LOCK_EX|LOCK_NB).  When this process holds the
\* lock the other one exits; otherwise it holds the lock from now on and
\* writes its own lock records.
OtherSetup ==
  /\ mode = "main"
  /\ ~other_lock
  /\ other_lock' = ~lock_held
  /\ files' = [ files EXCEPT ![LOCK_FILE] =
                  [ NoFile EXCEPT !.ino = << 0, 0 >>,
                                  !.pid = IF lock_held THEN 0 ELSE -1,
                                  !.recs = IF lock_held THEN << >> ELSE LockRecords ] ]
  /\ UNCHANGED << mode, statvars, pc, optvars, mainvars, outvars, lucasvars, lock_held, handlers,
                  checkpoint_alarm, checkpoint_and_end, chk, runs >>

\* the other process ends, and its lock ends with it
OtherExit ==
  /\ other_lock
  /\ other_lock' = FALSE
  /\ UNCHANGED << mode, statvars, pc, optvars, mainvars, outvars, lucasvars, chkptvars, runs >>

(***************************************************************************)
(* Specifications.                                                         *)
(***************************************************************************)
EmptyDir == [ name \in FileNames |-> NoFile ]

\* gmprime [-d dir [-i] [-m multiple]] h n, or gmprime -d dir alone, on a new
\* directory.  The n argument is small or within TopK of 2^64.
Init ==
  /\ mode = "main"
  /\ StatsUnused
  /\ pc = "start"
  /\ runs = 1
  /\ files = EmptyDir
  /\ checkpoint_dir \in { "NULL", "dir" }
  /\ restore \in IF checkpoint_dir = "NULL" THEN { FALSE } ELSE BOOLEAN
  /\ force \in IF checkpoint_dir = "NULL" \/ restore THEN { FALSE } ELSE BOOLEAN
  /\ multiple \in IF checkpoint_dir = "NULL" \/ restore THEN { 0 } ELSE { 0, 2 }
  /\ checkpoint_secs \in IF checkpoint_dir = "NULL" \/ restore
                          THEN { DEF_CHKPT_SECS } ELSE { 0, DEF_CHKPT_SECS }
  /\ other_lock = FALSE
  /\ orig_h \in IF restore THEN { 0 } ELSE 1..MaxH
  /\ orig_n \in IF restore THEN { 0 } ELSE (1..MaxN) \cup ((-TopK)..(-1))
  /\ FreshProcess

SetupStep == GenV1Enter \/ GenV1Search \/ GenU2Enter \/ GenU2Loop

MainStep ==
  \/ Startup \/ Prefilter \/ InitializeCheckpoint \/ ComputeCandidate
  \/ InitialCheckpoint \/ LoopIteration \/ Verdict

CheckpointStep ==
  \/ Checkpoint \/ RotatePrev1 \/ RotatePrev0 \/ RotateCur \/ CreateCur \/ WriteCur
  \/ SetupChkptLinks \/ LinkEnd \/ CheckpointEnd

SignalStep == RecordSigalarm \/ RecordSigint

Next == MainStep \/ SetupStep \/ CheckpointStep \/ SignalStep

Spec == Init /\ [][Next]_vars

\* one call gen_u0(h, n, u2) of the setup library
InitLucas ==
  /\ mode = "gen_u0"
  /\ StatsUnused
  /\ pc = "gen_v1"
  /\ runs = 1
  /\ files = EmptyDir
  /\ checkpoint_dir = "NULL" /\ restore = FALSE /\ force = FALSE /\ multiple = 0
  /\ checkpoint_secs = DEF_CHKPT_SECS /\ other_lock = FALSE
  /\ orig_h \in 0..MaxLucasH
  /\ orig_n \in 0..MaxLucasN
  /\ h = orig_h /\ n = orig_n
  /\ riesel_cand = RieselCand(h, n)
  /\ i = 0 /\ v1 = 0 /\ u_term = 0 /\ u_prev = 0
  /\ stdout = << >> /\ exit_status = << >>
  /\ tbl_i = 0 /\ jacobi_evals = 0 /\ r = 0 /\ s = 0 /\ bit = 0 /\ lucas_ret = 0
  /\ lock_held = FALSE /\ handlers = FALSE
  /\ checkpoint_alarm = 0 /\ checkpoint_and_end = 0
  /\ chk = NoCall

SpecLucas == InitLucas /\ [][SetupStep]_vars

\* one pass of the loop body from any u_term in [0, riesel_cand), for an odd
\* h < 2^n that the trivial tests let through to the loop
InitMod ==
  /\ mode = "mod_engine"
  /\ StatsUnused
  /\ pc = "mod_engine"
  /\ runs = 1
  /\ files = EmptyDir
  /\ checkpoint_dir = "NULL" /\ restore = FALSE /\ force = FALSE /\ multiple = 0
  /\ checkpoint_secs = DEF_CHKPT_SECS /\ other_lock = FALSE
  /\ orig_h \in { hh \in 1..MaxModH : IS_ODD(hh) }
  /\ orig_n \in { nn \in 1..MaxModN : orig_h < Pow2(nn) /\ TrivialVerdict(orig_h, nn) = "" }
  /\ h = orig_h /\ n = orig_n
  /\ riesel_cand = RieselCand(h, n)
  /\ u_term \in 0..(riesel_cand - 1)
  /\ i = 0 /\ v1 = 0 /\ u_prev = 0
  /\ stdout = << >> /\ exit_status = << >>
  /\ tbl_i = 0 /\ jacobi_evals = 0 /\ r = 0 /\ s = 0 /\ bit = 0 /\ lucas_ret = 0
  /\ lock_held = FALSE /\ handlers = FALSE
  /\ checkpoint_alarm = 0 /\ checkpoint_and_end = 0
  /\ chk = NoCall

SpecMod == InitMod /\ [][ModEngineStep]_vars

\* gmprime -d dir ... h n while another gmprime process comes and goes on
\* the same directory
InitLock == Init /\ checkpoint_dir = "dir" /\ ~restore /\ orig_n >= 1

OtherStep == OtherSetup \/ OtherExit

NextLock == Next \/ OtherStep

SpecLock == InitLock /\ [][NextLock]_vars

\* the h and n of runs that end with either verdict: 3*2^3-1 = 23 is prime,
\* 7*2^3-1 = 55 is not
ResultH == { 3, 7 }
ResultN == { 3 }

\* gmprime -d dir [-i] h n on a new directory, killed or ended, and run
\* again, with -i or without, on the same number or on another
InitResult ==
  /\ Init /\ checkpoint_dir = "dir" /\ ~restore /\ multiple = 0
  /\ checkpoint_secs = DEF_CHKPT_SECS
  /\ orig_h \in ResultH /\ orig_n \in ResultN

KillResult == Crash({ 0 })

RunForcedOrNot == runs < MaxResultRuns /\ Rerun(ResultH, ResultN, BOOLEAN)

NextResult == Next \/ KillResult \/ RunForcedOrNot

SpecResult == InitResult /\ [][NextResult]_vars

(***************************************************************************)
(* The same runs, where a process started with -i may also be killed       *)
(* inside initialize_checkpoint(), between two of its unlink() calls.      *)
(***************************************************************************)
\* the names initialize_checkpoint() unlinks when forced, in the order of
\* its unlink() calls
RemovalOrder ==
  << RESULT_PRIME_FILE, RESULT_COMPOSITE_FILE, RESULT_ERROR_FILE, SAVE_END_FILE,
     SAVE_FIRST_FILE, CHKPT_CUR_FILE, CHKPT_PREV0_FILE, CHKPT_PREV1_FILE,
     CHKPT_PREV2_FILE, SAVE_NEAR_FILE, SAVE_N1_FILE >>

\* the process is killed in initialize_checkpoint() after setup_checkpoint()
\* has written run.lock and the first k of the unlink() calls of -i are done
KillInRemovals ==
  /\ mode = "main"
  /\ pc = "initialize_checkpoint"
  /\ checkpoint_dir # "NULL" /\ force
  /\ ~(h < 1 \/ ULess(n, 2))
  /\ ~other_lock
  /\ \E k \in 0..Len(RemovalOrder) :
       LET locked == [ files EXCEPT ![LOCK_FILE] =
                         [ NoFile EXCEPT !.ino = << 0, 0 >>, !.recs = LockRecords,
                                         !.pid = runs ] ]
       IN  files' = Unlink(locked, { RemovalOrder[j] : j \in 1..k })
  /\ pc' = "crashed"
  /\ ProcessGone
  /\ UNCHANGED << mode, statvars, other_lock, optvars, runs >>

NextForce == NextResult \/ KillInRemovals

SpecForce == InitResult /\ [][NextForce]_vars

(***************************************************************************)
(* A run on a directory that an earlier process has left: it holds none    *)
(* or one of the result files, with or without sav.end.pt.                 *)
(***************************************************************************)
TerminalH == { 1, 3, 7 }
TerminalN == { 2, 3 }

\* a whole checkpoint file of the earlier process
PriorFile ==
  [ ino |-> << 0, 1 >>, pid |-> 0, recs |-> CheckpointRecords,
    h |-> 7, n |-> 3, i |-> 3, v1 |-> 5, u |-> 1 ]

\* the directories the run can meet
TerminalDirs ==
  { [ name \in FileNames |-> IF name \in held THEN PriorFile ELSE NoFile ] :
      held \in { results \cup ends :
                   results \in { { }, { RESULT_PRIME_FILE }, { RESULT_COMPOSITE_FILE },
                                 { RESULT_ERROR_FILE } },
                   ends \in { { }, { SAVE_END_FILE } } } }

InitTerminal ==
  /\ mode = "main"
  /\ StatsUnused
  /\ pc = "start"
  /\ runs = 1
  /\ files \in TerminalDirs
  /\ checkpoint_dir = "dir"
  /\ restore = FALSE
  /\ force \in BOOLEAN
  /\ multiple = 0
  /\ checkpoint_secs = DEF_CHKPT_SECS
  /\ other_lock = FALSE
  /\ orig_h \in TerminalH
  /\ orig_n \in TerminalN
  /\ FreshProcess

SpecTerminal == InitTerminal /\ [][Next]_vars

\* one call checkpoint_needed(h, n, i, multiple) with h >= 1, n >= 2 and
\* 2 <= i <= n, for small n and for n around CHECKPOINT_PREVIEW, i near 2 or
\* near n, whatever the two signal flags are
InitNeeded ==
  /\ mode = "checkpoint_needed"
  /\ StatsUnused
  /\ pc = "checkpoint_needed"
  /\ runs = 1
  /\ files = EmptyDir
  /\ checkpoint_dir = "dir" /\ restore = FALSE /\ force = FALSE
  /\ checkpoint_secs = DEF_CHKPT_SECS /\ other_lock = FALSE
  /\ multiple \in 0..MaxMultiple
  /\ orig_h \in 1..MaxNeededH
  /\ orig_n \in (FIRST_TERM_INDEX..MaxNeededN)
                  \cup (CHECKPOINT_PREVIEW..(CHECKPOINT_PREVIEW + MaxNeededN))
  /\ h = orig_h /\ n = orig_n
  /\ i \in { k \in FIRST_TERM_INDEX..n :
                k <= FIRST_TERM_INDEX + MaxNeededN \/ k >= n - MaxNeededN }
  /\ checkpoint_alarm \in 0..MaxSig
  /\ checkpoint_and_end \in 0..MaxSig
  /\ riesel_cand = 0 /\ v1 = 0 /\ u_term = 0 /\ u_prev = 0
  /\ stdout = << >> /\ exit_status = << >>
  /\ tbl_i = 0 /\ jacobi_evals = 0 /\ r = 0 /\ s = 0 /\ bit = 0 /\ lucas_ret = 0
  /\ lock_held = TRUE /\ handlers = TRUE
  /\ chk = NoCall

SpecNeeded == InitNeeded /\ [][CheckpointNeededCall]_vars

\* how many records of the file being written can have reached the disk
\* when the process is killed
AllCuts == 0..Len(CheckpointRecords)

\* gmprime -d dir [-i] [-m multiple] h n, killed at any point
InitCrash == Init /\ checkpoint_dir = "dir" /\ ~restore /\ orig_n >= 1

KillAnywhere == Crash(AllCuts)

NextCrash == Next \/ KillAnywhere

SpecCrash == InitCrash /\ [][NextCrash]_vars

\* the h and n of the runs on one directory
DirH == { 3 }
DirN == { 3, 4 }

\* a killed write leaves nothing or all but the sentinel
CoarseCuts == { 0, Len(CheckpointRecords) - 1 }

\* gmprime -d dir h n on a new directory, killed or ended, and run again
InitDir ==
  /\ Init /\ checkpoint_dir = "dir" /\ ~restore /\ ~force /\ multiple = 0
  /\ checkpoint_secs = DEF_CHKPT_SECS
  /\ orig_h \in DirH /\ orig_n \in DirN

Kill == Crash(CoarseCuts)

RunAgain == Restart(DirH, DirN)

NextDir == Next \/ Kill \/ RunAgain

SpecDir == InitDir /\ [][NextDir]_vars

(***************************************************************************)
(* A test that is killed or ended by a signal, and gmprime -d dir run      *)
(* without h and n on its directory afterwards.                            *)
(***************************************************************************)
RestoreH == { 3, 7 }
RestoreN == { 3, 4 }

InitRestore ==
  /\ Init /\ checkpoint_dir = "dir" /\ ~restore /\ ~force /\ multiple = 0
  /\ checkpoint_secs = DEF_CHKPT_SECS
  /\ orig_h \in RestoreH /\ orig_n \in RestoreN

KillRestore == Crash(CoarseCuts)

\* gmprime -d dir, with no h and no n, once the process before it has ended:
\* argc - optind is 1 and restore is set
RunRestore ==
  /\ mode = "main"
  /\ pc \in Ended
  /\ runs < MaxRestoreRuns
  /\ runs' = runs + 1
  /\ pc' = "start"
  /\ restore' = TRUE
  /\ orig_h' = 0
  /\ orig_n' = 0
  /\ ProcessGone
  /\ UNCHANGED << mode, statvars, other_lock, checkpoint_dir, force, checkpoint_secs, multiple, files >>

NextRestore == Next \/ KillRestore \/ RunRestore

SpecRestore == InitRestore /\ [][NextRestore]_vars

\* the same without kills: a process ends by its own exit only
NextResume == Next \/ RunRestore

SpecResume == InitRestore /\ [][NextResume]_vars

(***************************************************************************)
(* One run that may be killed at any step, and another process that tries  *)
(* to take the lock of the directory at any time.                          *)
(***************************************************************************)
HoldH == { 3, 5 }
HoldN == { 2, 3 }

InitHold == InitLock /\ orig_h \in HoldH /\ orig_n \in HoldN

KillHold == Crash(CoarseCuts)

NextHold == Next \/ OtherStep \/ KillHold

SpecHold == InitHold /\ [][NextHold]_vars

(***************************************************************************)
(* One call of update_stats() in a process whose statistics were set up by *)
(* initialize_beginrun_stats() and initialize_total_stats().               *)
(***************************************************************************)
\* the times gettimeofday and getrusage can return
TimeVals == { << sec, usec >> : sec \in 0..MaxSec, usec \in { 0, USEC_PER_SEC - 1 } }

\* the struct rusage getrusage can fill in
Usages ==
  { [ ru_utime |-> ut, ru_stime |-> st, ru_maxrss |-> c, ru_minflt |-> c, ru_majflt |-> c,
      ru_inblock |-> c, ru_oublock |-> c, ru_nvcsw |-> c, ru_nivcsw |-> c ] :
      ut \in TimeVals, st \in TimeVals, c \in 0..MaxCount }

\* update_stats(): load_prime_stats(&current), current.wall_clock, total
UpdateStats ==
  /\ mode = "update_stats"
  /\ pc = "update_stats"
  /\ \E now \in TimeVals, usage \in Usages :
       LET loaded == load_prime_stats(now, usage)
       IN  /\ current' = [ loaded EXCEPT !.wall_clock = TimeUsed(loaded.now, beginrun.now) ]
           /\ total' = update_stats(loaded)
  /\ pc' = "returned"
  /\ UNCHANGED << mode, beginrun, restored, other_lock, optvars, mainvars, outvars, lucasvars,
                  chkptvars, runs >>

InitStats ==
  /\ mode = "update_stats"
  /\ pc = "update_stats"
  /\ \E now \in TimeVals, usage \in Usages : beginrun = load_prime_stats(now, usage)
  /\ restored = [ zerosize_stats EXCEPT !.now = beginrun.now,
                                         !.ru_maxrss = beginrun.ru_maxrss ]
  /\ total = restored
  /\ current = zerosize_stats
  /\ runs = 1
  /\ files = EmptyDir
  /\ checkpoint_dir = "dir" /\ restore = FALSE /\ force = FALSE /\ multiple = 0
  /\ checkpoint_secs = DEF_CHKPT_SECS /\ other_lock = FALSE
  /\ orig_h = 0 /\ orig_n = 0
  /\ FreshProcess

SpecStats == InitStats /\ [][UpdateStats]_vars

(***************************************************************************)
(* A run that gets no SIGINT and no SIGHUP.  The process is not stopped     *)
(* from outside, so a step of main() that can be taken is taken in the end. *)
(***************************************************************************)
ProgramStep == MainStep \/ SetupStep \/ CheckpointStep

NextQuiet == ProgramStep \/ RecordSigalarm

SpecQuiet == Init /\ [][NextQuiet]_vars /\ WF_vars(ProgramStep)

(***************************************************************************)
(* Properties.                                                             *)
(***************************************************************************)
\* one pass of the loop body has run on its own
ModEngineReturned == mode = "mod_engine" /\ pc = "returned"

\* C2: one pass of the loop body, from any u_term with 0 <= u_term <
\* riesel_cand (0 and 1 included), leaves a u_term that is congruent to
\* u_prev^2 - 2 modulo riesel_cand and lies in 0 <= u_term < riesel_cand.
C2_ModEngineExact ==
  ModEngineReturned =>
    /\ (u_term - (u_prev * u_prev - 2)) % riesel_cand = 0
    /\ 0 <= u_term
    /\ u_term < riesel_cand

\* V(k) modulo m of the Lucas sequence V(0) = 2, V(1) = v,
\* V(k+2) = V(1)*V(k+1) - V(k), as the pair << V(k), V(k+1) >>
RECURSIVE LucasVPair(_, _, _)
LucasVPair(k, v, m) ==
  IF k = 0 THEN << 2 % m, v % m >>
  ELSE LET p == LucasVPair(k - 1, v, m)
       IN  << p[2], (v * p[2] - p[1]) % m >>

LucasV(k, v, m) == LucasVPair(k, v, m)[1]

\* the setup library has returned from gen_u0(h, n, u2)
SetupReturned == mode = "gen_u0" /\ pc = "returned"

\* C3: for odd h < 2^n with h*2^n-1 not a multiple of 3, the setup succeeds
\* and returns U(2) with 0 <= U(2) < N and U(2) = V(h) mod N, where V(0) = 2,
\* V(1) = v1 is gen_v1's value and V(k+2) = V(1)*V(k+1) - V(k); for h = 1 it
\* returns V(1) mod N.
C3_SetupIsVh ==
  (SetupReturned /\ IS_ODD(h) /\ n >= 1 /\ h < Pow2(n) /\ riesel_cand % 3 # 0) =>
    /\ lucas_ret = 0
    /\ 0 <= u_term
    /\ u_term < riesel_cand
    /\ u_term = LucasV(h, v1, riesel_cand)
    /\ h = 1 => u_term = v1 % riesel_cand

\* the bit loop has run over a clear and a set bit of h, and U(2) is not 0
C3_Witness ==
  /\ SetupReturned /\ lucas_ret = 0
  /\ h = 13 /\ n = 5 /\ riesel_cand % 3 # 0
  /\ u_term = LucasV(h, v1, riesel_cand) /\ u_term > 0

\* a^e modulo m by repeated squaring
RECURSIVE PowMod(_, _, _)
PowMod(a, e, m) ==
  IF e = 0 THEN 1 % m
  ELSE LET half == PowMod(a, e \div 2, m)
           sq   == (half * half) % m
       IN  IF e % 2 = 1 THEN (sq * (a % m)) % m ELSE sq

\* the Legendre symbol (a/p) for an odd prime p, by Euler's criterion
Legendre(a, p) ==
  LET e == PowMod(a % p, (p - 1) \div 2, p)
  IN  IF e = 0 THEN 0 ELSE IF e = 1 THEN 1 ELSE -1

\* the Jacobi symbol (a/m) for odd m >= 1: the product of the Legendre
\* symbols over the prime factors of m, taken from p upwards
RECURSIVE JacobiFrom(_, _, _)
JacobiFrom(a, m, p) ==
  IF m = 1 THEN 1
  ELSE IF p * p > m THEN Legendre(a, m)
  ELSE IF m % p = 0 THEN Legendre(a, p) * JacobiFrom(a, m \div p, p)
  ELSE JacobiFrom(a, m, p + 2)

JacobiSymbol(a, m) == JacobiFrom(a, m, 3)

\* x meets Jacobi(x-2, N) = +1 and Jacobi(x+2, N) = -1
RodsethCondition(x, m) == JacobiSymbol(x - 2, m) = 1 /\ JacobiSymbol(x + 2, m) = -1

\* gen_v1 has returned a value for an odd h that is a multiple of 3
SearchReturned ==
  /\ mode = "gen_u0" /\ pc \notin { "gen_v1", "gen_v1_search" }
  /\ IS_ODD(h) /\ h % 3 = 0 /\ n >= 1

\* C4: for odd h that is a multiple of 3, the x that gen_v1 returns has
\* Jacobi(x-2, N) = +1 and Jacobi(x+2, N) = -1, and it is the first in the
\* search order (the 42 listed values in their listed order, then 167, 169,
\* ...) that has both.
C4_FirstRodseth ==
  SearchReturned =>
    /\ RodsethCondition(v1, riesel_cand)
    /\ \E k \in 0..(x_tbl_len + v1) :
         /\ SearchCandidate(k) = v1
         /\ \A j \in 0..(k - 1) : ~RodsethCondition(SearchCandidate(j), riesel_cand)

\* the search has rejected candidates before it found its x
C4_Witness ==
  /\ SearchReturned /\ pc = "returned" /\ lucas_ret = 0
  /\ tbl_i >= 3 /\ v1 = SearchCandidate(tbl_i)

\* gen_v1 has returned for an odd h >= 1 that is not a multiple of 3
Case1Returned ==
  /\ mode = "gen_u0" /\ pc # "gen_v1"
  /\ IS_ODD(h) /\ h >= 1 /\ h % 3 # 0 /\ n >= 1

\* C5: for odd h >= 1 that is not a multiple of 3 (h = 1 included) and
\* n >= 1, gen_v1 returns 4 and no Jacobi symbol has been evaluated.
C5_Case1IsFour == Case1Returned => (v1 = 4 /\ jacobi_evals = 0 /\ tbl_i = 0)

\* gen_v1 has returned 4 for h = 1 and the setup has gone on to return U(2)
C5_Witness ==
  /\ Case1Returned /\ pc = "returned" /\ lucas_ret = 0
  /\ h = 1 /\ v1 = 4 /\ jacobi_evals = 0 /\ u_term = 4 % riesel_cand

\* m is a prime number
IsPrime(m) == m >= 2 /\ \A d \in 2..(m - 1) : m % d # 0

\* gmprime h n, with no checkpoint directory, for a small n
PlainRun == mode = "main" /\ checkpoint_dir = "NULL" /\ ~restore /\ orig_n >= 1

\* the odd h and its n that the input stands for are testable: h < 2^n
Testable ==
  \E k \in 0..orig_h :
    /\ orig_h = Pow2(k) * (orig_h \div Pow2(k))
    /\ IS_ODD(orig_h \div Pow2(k))
    /\ orig_h \div Pow2(k) < Pow2(orig_n + k)

\* the one line a run prints for the input, with the given verdict
ExpectedLine(text) ==
  << [ h |-> ULongValue(orig_h), n |-> ULongValue(orig_n), verdict |-> text ] >>

\* C1: a run on a testable input h >= 1, n >= 1, with no checkpoint
\* directory and no signal, does not stop before it exits, and it exits
\* with status 0 after the line "is prime" if and only if h*2^n-1 is prime,
\* and otherwise with status 1 after the line "is composite".
C1_VerdictIsPrimality ==
  (PlainRun /\ Testable) =>
    /\ pc \notin { "aborted", "crashed", "returned" }
    /\ pc # "done" => (ENABLED Next /\ stdout = << >> /\ exit_status = << >>)
    /\ pc = "done" =>
         IF IsPrime(RieselCand(orig_h, orig_n))
         THEN exit_status = << EXIT_IS_PRIME >> /\ stdout = ExpectedLine("is prime")
         ELSE exit_status = << EXIT_IS_COMPOSITE >> /\ stdout = ExpectedLine("is composite")

\* 6*2^2-1 = 3*2^3-1 = 23 went through the setup and the loop and was found
\* prime
C1_Witness ==
  /\ PlainRun /\ Testable /\ pc = "done"
  /\ orig_h = 6 /\ orig_n = 2 /\ h = 3 /\ n = 3 /\ i = 3 /\ u_term = 0
  /\ exit_status = << EXIT_IS_PRIME >> /\ stdout = ExpectedLine("is prime")

\* gmprime h n with no checkpoint directory, past the trivial tests
PastPrefilter ==
  /\ mode = "main" /\ checkpoint_dir = "NULL" /\ ~restore
  /\ pc \notin { "start", "prefilter" }

\* the odd h and its n meet the multiple of 3 test, and are on neither list
Mod3Case ==
  /\ << h, n >> \notin { << 1, 2 >>, << 1, 1 >> }
  /\ (h % 3 = 1 /\ n % 2 = 0) \/ (h % 3 = 2 /\ n % 2 = 1)

\* the run has ended with this status after this verdict, and nothing of the
\* setup has run
DecidedEarly(code, text) ==
  /\ pc = "done" /\ exit_status = << code >>
  /\ Len(stdout) = 1 /\ stdout[1].verdict = text
  /\ riesel_cand = 0 /\ v1 = 0 /\ jacobi_evals = 0 /\ i = 0 /\ u_term = 0

\* 2^e modulo 3, for a held unsigned long e: 2^64 is even, so the held e has
\* the parity of the exponent
TwoPowMod3(e) == IF e % 2 = 0 THEN 1 ELSE 2

\* the number the user asked about, orig_h * 2^orig_n - 1, is a multiple of 3
\* and is more than 3
TestedIsMultipleOf3Above3 ==
  /\ ((orig_h % 3) * TwoPowMod3(orig_n) - 1) % 3 = 0
  /\ orig_n >= 0 => (RieselCand(orig_h, orig_n) % 3 = 0 /\ RieselCand(orig_h, orig_n) > 3)
  /\ orig_n < 0 => orig_h >= 1

C7_NormalizedSameNumber ==
  (mode = "main" /\ ~restore /\ pc # "start") =>
    /\ IS_ODD(h)
    /\ \E k \in 0..orig_h :
         /\ orig_h = h * Pow2(k)
         /\ ULongValue(n) = << ULongValue(orig_n)[1], orig_n + k >>
    /\ \A l \in 1..Len(stdout) :
         stdout[l].h = ULongValue(orig_h) /\ stdout[l].n = ULongValue(orig_n)

\* C8: an input that the trivial tests do not decide and whose odd h is at
\* least 2^n ends with status 2 and without a verdict, with or without a
\* checkpoint directory (a directory that cannot be used or is locked
\* aside).
C8_CannotTestExit2 ==
  ( /\ mode = "main" /\ ~restore /\ pc = "done"
    /\ TrivialVerdict(h, n) = ""
    /\ n >= 0 /\ h >= Pow2(n)
    /\ exit_status \notin { << EXIT_CHKPT_ACCESS >>, << EXIT_LOCKED >> } ) =>
      (exit_status = << EXIT_CANNOT_TEST >> /\ stdout = << >>)

\* the rotated checkpoint files
RotatedFiles == { CHKPT_CUR_FILE, CHKPT_PREV0_FILE, CHKPT_PREV1_FILE, CHKPT_PREV2_FILE }

\* the file ends with the sentinel complete = "true"
IsComplete(f) == HasRecord(f, "complete")

\* one of the rotated files is a complete checkpoint
AnyComplete == \E name \in RotatedFiles : IsComplete(files[name])

\* C9: whatever the runs and the kills, between any two steps of the
\* rotation or part-way through the write, once one of chk.cur.pt,
\* chk.prev-0.pt, chk.prev-1.pt, chk.prev-2.pt is a complete checkpoint, one
\* of them is a complete checkpoint at every later moment (no run uses -i).
C9_RotationKeepsComplete == [][AnyComplete => AnyComplete']_vars

\* the checkpoint files: every file of the directory but the lock file
CheckpointFiles == FileNames \ { LOCK_FILE }

\* C10: in every checkpoint file the first record is version; a file that
\* has the sentinel has it as its last record and has the records n, h, i,
\* v1, the stats blocks and u_term of the same call, wherever the process
\* was killed.
C10_SentinelMeansWhole ==
  \A name \in CheckpointFiles :
    LET f == files[name]
    IN  /\ Len(f.recs) > 0 => f.recs[1] = "version"
        /\ IsComplete(f) =>
             /\ f.recs[Len(f.recs)] = "complete"
             /\ \A rec \in { "n", "h", "i", "v1", "beginrun", "current",
                             "restored", "total", "u_term" } : HasRecord(f, rec)

\* the process was killed while it wrote chk.cur.pt: the file stops before
\* u_term and the sentinel, and chk.prev-0.pt is whole
C10_Witness ==
  /\ pc = "crashed"
  /\ Len(files[CHKPT_CUR_FILE].recs) = 14
  /\ ~IsComplete(files[CHKPT_CUR_FILE])
  /\ IsComplete(files[CHKPT_PREV0_FILE])

\* the positions of checkpoint() and of its callees at which a file of the
\* directory is renamed, created, written or linked
FileOpPositions ==
  { "rotate_prev1", "rotate_prev0", "rotate_cur", "create_cur", "write_cur",
    "setup_chkpt_links", "link_end", "checkpoint_end" }

\* the files of the directory other than run.lock
DataFiles == FileNames \ { LOCK_FILE }

\* this process calls initialize_checkpoint() on a directory whose lock the
\* other process holds, and gets as far as flock()
LockedAttempt ==
  /\ pc = "initialize_checkpoint"
  /\ pc' # pc
  /\ other_lock
  /\ ~(h < 1 \/ ULess(n, 2))
  /\ exit_status' # << EXIT_CHKPT_ACCESS >>

\* C11: of two processes on one checkpoint directory at most one holds the
\* lock on run.lock at any time; a process that tries to take the lock while
\* the other holds it exits with status 5, and while the other holds the
\* lock it is at no rotation, write or link and changes no chk.*, sav.* or
\* result.* file.
C11_LockExclusive ==
  [][ /\ ~(lock_held' /\ other_lock')
      /\ other_lock' => pc' \notin FileOpPositions
      /\ LockedAttempt =>
           /\ pc' = "done"
           /\ exit_status' = << EXIT_LOCKED >>
           /\ ~lock_held'
           /\ \A name \in DataFiles : files'[name] = files[name] ]_vars

\* the other process holds the lock and this process has exited with
\* status 5
C11_Witness ==
  /\ other_lock
  /\ pc = "done"
  /\ exit_status = << EXIT_LOCKED >>

\* C12: while the other process holds the lock, the failed attempt of this
\* process leaves every file of the directory, run.lock and its records
\* included, as it was.
C12_FailedAttemptChangesNothing ==
  [][ LockedAttempt => files' = files ]_vars

\* name is a hard link to chk.cur.pt
LinkedToCur(dir, name) ==
  /\ dir[name].ino # << >>
  /\ dir[name].ino = dir[CHKPT_CUR_FILE].ino

\* chk.cur.pt is whole and holds the h, n, i, v1 and u_term of the process
CurIsCurrent ==
  /\ IsComplete(files[CHKPT_CUR_FILE])
  /\ files[CHKPT_CUR_FILE].pid = runs
  /\ files[CHKPT_CUR_FILE].h = h
  /\ files[CHKPT_CUR_FILE].n = n
  /\ files[CHKPT_CUR_FILE].i = i
  /\ files[CHKPT_CUR_FILE].v1 = v1
  /\ files[CHKPT_CUR_FILE].u = u_term

\* the links that go with a checkpoint of term i are made
LinksOfTermMade ==
  /\ i = n => /\ LinkedToCur(files, SAVE_END_FILE)
              /\ LinkedToCur(files, IF u_term = 0 THEN RESULT_PRIME_FILE
                                                  ELSE RESULT_COMPOSITE_FILE)
  /\ (i = n - 1) => LinkedToCur(files, SAVE_N1_FILE)
  /\ (i = n - CHECKPOINT_PREVIEW) => LinkedToCur(files, SAVE_NEAR_FILE)
  /\ (i = FIRST_TERM_INDEX /\ i < n - 1) => LinkedToCur(files, SAVE_FIRST_FILE)

\* C13: the process exits with status 7 only at the end of checkpoint(),
\* when chk.cur.pt has been written whole with the current h, n, i, v1 and
\* u_term and its links are made; and when checkpoint_and_end is not 0 at the
\* end of a checkpoint, the process exits with status 7 and computes no
\* other term.
C13_SignalExitAfterCheckpoint ==
  [][ /\ (exit_status' = << EXIT_SIGNAL >> /\ exit_status # << EXIT_SIGNAL >>) =>
           /\ pc = "checkpoint_end"
           /\ checkpoint_and_end # 0
           /\ CurIsCurrent
           /\ LinksOfTermMade
           /\ files' = files
      /\ (pc = "checkpoint_end" /\ checkpoint_and_end # 0 /\ pc' # pc) =>
           /\ pc' = "done"
           /\ exit_status' = << EXIT_SIGNAL >>
           /\ i' = i /\ u_term' = u_term
           /\ stdout' = stdout ]_vars

\* a SIGINT came during the loop: the process has exited with status 7
\* before the last term, and chk.cur.pt holds the term it stopped at
C13_Witness ==
  /\ pc = "done"
  /\ exit_status = << EXIT_SIGNAL >>
  /\ FIRST_TERM_INDEX < i /\ i < n
  /\ files[CHKPT_CUR_FILE].i = i
  /\ IsComplete(files[CHKPT_CUR_FILE])

\* gmprime -d dir ... h n has ended after the loop computed the last term:
\* the checkpoint of term n was called for
FinalTermComputed ==
  /\ mode = "main" /\ checkpoint_dir = "dir" /\ ~restore
  /\ pc = "done"
  /\ chk.valid_test /\ chk.i = n /\ i = n

\* the verdict line for u_term is printed and the exit status is the verdict's
VerdictPropagated ==
  IF u_term = 0
  THEN exit_status = << EXIT_IS_PRIME >> /\ stdout = ExpectedLine("is prime")
  ELSE exit_status = << EXIT_IS_COMPOSITE >> /\ stdout = ExpectedLine("is composite")

\* C14 as stated: in a run with a checkpoint directory, whatever signals
\* arrive, once the last term is computed the process prints the verdict line
\* and exits with status 0 when the term is 0 and with status 1 otherwise.
C14_VerdictDespiteSignals == FinalTermComputed => VerdictPropagated

\* C14, amended: once the last term is computed the process prints the
\* verdict line and exits with status 0 when the term is 0 and with status 1
\* otherwise, whatever SIGALRM and SIGVTALRM arrive, unless a SIGINT or SIGHUP
\* was recorded before the checkpoint of the last term ended: then it exits
\* with status 7, prints nothing, and the result file of the verdict is in
\* the directory.  A run with a directory does not stop before it ends.
C14_VerdictUnlessInterrupted ==
  /\ (mode = "main" /\ checkpoint_dir = "dir" /\ pc \notin Ended) => ENABLED Next
  /\ FinalTermComputed =>
       /\ checkpoint_and_end = 0 => VerdictPropagated
       /\ \/ VerdictPropagated
          \/ /\ checkpoint_and_end # 0
             /\ exit_status = << EXIT_SIGNAL >>
             /\ stdout = << >>
             /\ LinkedToCur(files, IF u_term = 0 THEN RESULT_PRIME_FILE
                                                 ELSE RESULT_COMPOSITE_FILE)

\* 6*2^2-1 = 23, run with a directory: the last term was checkpointed, the
\* line names 6 and 2 and the exit status is 0
C14_Witness ==
  /\ FinalTermComputed
  /\ orig_h = 6 /\ orig_n = 2 /\ n = 3 /\ u_term = 0
  /\ VerdictPropagated

\* the conditions the specification lists for a checkpoint at the end of
\* step i
NeededBySpec ==
  \/ checkpoint_alarm # 0
  \/ checkpoint_and_end # 0
  \/ i = 2
  \/ (n >= 1026 /\ i = n - 1024)
  \/ i = n - 1
  \/ i = n
  \/ (multiple > 0 /\ i % multiple = 0)

\* C15: for h >= 1, n >= 2, 2 <= i <= n and multiple >= 0,
\* checkpoint_needed(h, n, i, multiple) returns true exactly when
\* checkpoint_alarm != 0, or checkpoint_and_end != 0, or i = 2, or
\* i = n - 1024 (never for n < 1026), or i = n - 1, or i = n, or multiple > 0
\* and i mod multiple = 0, and false otherwise; it changes neither flag.
C15_NeededExactly ==
  [][ (mode = "checkpoint_needed" /\ pc = "checkpoint_needed") =>
        /\ pc' \in { "return_true", "return_false" }
        /\ (pc' = "return_true") = NeededBySpec
        /\ checkpoint_alarm' = checkpoint_alarm
        /\ checkpoint_and_end' = checkpoint_and_end ]_vars

\* checkpoint_needed(1, 1027, 3, 0) with no signal recorded returned true:
\* 3 = 1027 - 1024
C15_Witness ==
  /\ mode = "checkpoint_needed" /\ pc = "return_true"
  /\ n = 1027 /\ i = 3 /\ multiple = 0
  /\ checkpoint_alarm = 0 /\ checkpoint_and_end = 0

\* C16: in a run with a checkpoint directory and -s 0, a checkpoint is
\* written at the end of every pass of the loop: whenever the process is
\* between two passes, or past the last one, chk.cur.pt is the whole
\* checkpoint of the term i it has just computed.
C16_EveryTermCheckpointed ==
  ( /\ mode = "main" /\ checkpoint_dir = "dir" /\ ~restore
    /\ checkpoint_secs = 0
    /\ pc = "loop" ) => CurIsCurrent

\* the three result files
ResultFiles == { RESULT_PRIME_FILE, RESULT_COMPOSITE_FILE, RESULT_ERROR_FILE }

\* the result files that exist in the directory
ResultsPresent(dir) == { name \in ResultFiles : dir[name].ino # << >> }

\* checkpoint() was called for a valid test with i = n and has returned to
\* main(), which is at the end of its loop or has printed its verdict
FinalCheckpointReturned ==
  /\ mode = "main" /\ checkpoint_dir = "dir" /\ ~restore
  /\ chk.valid_test /\ chk.i = n /\ i = n
  /\ \/ pc = "loop"
     \/ pc = "done" /\ exit_status \in { << EXIT_IS_PRIME >>, << EXIT_IS_COMPOSITE >> }

\* C17: after checkpoint() for a valid test with i = n has returned,
\* chk.cur.pt is linked to result.prime.pt when u_term = 0 and to
\* result.composite.pt otherwise, no other result file exists, sav.end.pt is
\* a link to chk.cur.pt as well, and the verdict main() prints agrees with
\* the result file.
C17_OneResultAgreesWithVerdict ==
  FinalCheckpointReturned =>
    /\ ResultsPresent(files) =
         { IF u_term = 0 THEN RESULT_PRIME_FILE ELSE RESULT_COMPOSITE_FILE }
    /\ \A name \in ResultsPresent(files) : LinkedToCur(files, name)
    /\ LinkedToCur(files, SAVE_END_FILE)
    /\ files[CHKPT_CUR_FILE].i = n
    /\ pc = "done" =>
         /\ Len(stdout) = 1
         /\ (stdout[1].verdict = "is prime") = Exists(RESULT_PRIME_FILE)
         /\ (stdout[1].verdict = "is composite") = Exists(RESULT_COMPOSITE_FILE)
         /\ (exit_status = << EXIT_IS_PRIME >>) = Exists(RESULT_PRIME_FILE)

\* 7*2^3-1 = 55 was tested with a directory: result.composite.pt and
\* sav.end.pt are links to the last checkpoint and the line says composite
C17_Witness ==
  /\ FinalCheckpointReturned
  /\ pc = "done"
  /\ h = 7 /\ n = 3
  /\ ResultsPresent(files) = { RESULT_COMPOSITE_FILE }
  /\ LinkedToCur(files, SAVE_END_FILE)
  /\ stdout[1].verdict = "is composite"

\* C18: in a run on an empty checkpoint directory, for a testable h and
\* n >= 2, once the first checkpoint, the one of term 2 made right after the
\* setup, has returned, sav.u2.pt exists and is a hard link to the file of
\* that checkpoint.
C18_FirstCheckpointSaved ==
  ( /\ mode = "main" /\ checkpoint_dir = "dir" /\ ~restore
    /\ orig_n >= 2
    /\ pc = "loop"
    /\ chk.valid_test /\ chk.i = FIRST_TERM_INDEX /\ i = FIRST_TERM_INDEX ) =>
      /\ LinkedToCur(files, SAVE_FIRST_FILE)
      /\ files[SAVE_FIRST_FILE].i = FIRST_TERM_INDEX

\* C19: whatever the runs on a checkpoint directory, with -i or without,
\* the signals and the kills, at most one of result.prime.pt,
\* result.composite.pt and result.error.pt exists.
C19_AtMostOneResult == Cardinality(ResultsPresent(files)) <= 1

\* a run found 23 prime, and a later run with -i on the same directory has
\* found 55 composite: result.composite.pt is the one result file
C19_Witness ==
  /\ runs > 1 /\ force
  /\ pc = "done" /\ h = 7
  /\ ResultsPresent(files) = { RESULT_COMPOSITE_FILE }
  /\ files[RESULT_COMPOSITE_FILE].pid = runs

\* gmprime -d dir ... h n has ended on an input that the trivial tests decide
DecidedWithDir ==
  /\ mode = "main" /\ checkpoint_dir = "dir" /\ ~restore
  /\ orig_n >= 1
  /\ pc = "done"
  /\ TrivialVerdict(h, n) # ""

\* C20: with a checkpoint directory, a run on an input that the trivial
\* tests decide (the odd h and its n are 1 and 2, or 1 and 1, or meet the
\* multiple of 3 test) leaves a result file in the directory and exits with
\* the status of its verdict, 0 for prime and 1 for composite.
C20_TrivialVerdictWithDir ==
  DecidedWithDir =>
    /\ ResultsPresent(files) # { }
    /\ exit_status = IF TrivialVerdict(h, n) = "is prime"
                     THEN << EXIT_IS_PRIME >> ELSE << EXIT_IS_COMPOSITE >>


(***************************************************************************)
(* The removals of the forced start.                                       *)
(***************************************************************************)
\* the files that a forced start must leave absent
ForcedAbsent ==
  { "result.prime.pt", "result.composite.pt", "result.error.pt",
    "sav.u2.pt", "sav.near.pt", "sav.n-1.pt", "sav.end.pt",
    "chk.cur.pt", "chk.prev-0.pt", "chk.prev-1.pt", "chk.prev-2.pt" }

\* initialize_checkpoint() returns to main() with force set
ForcedReturn ==
  /\ pc = "initialize_checkpoint"
  /\ checkpoint_dir = "dir"
  /\ force
  /\ pc' = "candidate"

\* C21: when initialize_checkpoint() returns with force set, none of the
\* three result files, the four sav files and the four chk files exists,
\* and no other file of the directory has been removed: run.lock, which
\* setup has opened and written, is there with its records
C21_ForceRemovesExactly ==
  [][ ForcedReturn =>
        /\ \A name \in ForcedAbsent : files'[name] = NoFile
        /\ \A name \in FileNames \ ForcedAbsent :
             /\ files'[name].ino # << >>
             /\ HasRecord(files'[name], "complete") ]_vars

\* a forced start is about to return on a directory that holds a result
\* file, sav.end.pt, a saved term and the rolling checkpoint of a run before
C21_Witness ==
  /\ pc = "initialize_checkpoint"
  /\ force
  /\ runs >= 1
  /\ Exists(RESULT_PRIME_FILE)
  /\ Exists(SAVE_END_FILE)
  /\ Exists(SAVE_N1_FILE)
  /\ Exists(CHKPT_CUR_FILE)
  /\ Exists(CHKPT_PREV0_FILE)
  /\ Exists(LOCK_FILE)
  /\ ENABLED (InitializeCheckpoint /\ pc' = "candidate")

(***************************************************************************)
(* The result files outside the forced start.                              *)
(***************************************************************************)
\* the step is initialize_checkpoint() of a run started with -i
ForcedInitialize == pc = "initialize_checkpoint" /\ force

\* C22: a result file that exists is left as it is, the same file under
\* the same name with the same records, by every step of every process
\* except initialize_checkpoint() of a run started with -i; kills of the
\* process are steps too
C22_ResultKeptUnlessForced ==
  [][ ~ForcedInitialize =>
        \A name \in { "result.prime.pt", "result.composite.pt", "result.error.pt" } :
           files[name].ino # << >> => files'[name] = files[name] ]_vars

\* a run without -i met the result.prime.pt that an earlier run had made,
\* ended with status 0 and the file is the one of the earlier run
C22_Witness ==
  /\ pc = "done"
  /\ ~force
  /\ runs >= 2
  /\ exit_status = << EXIT_IS_PRIME >>
  /\ Exists(RESULT_PRIME_FILE)
  /\ files[RESULT_PRIME_FILE].pid < runs
  /\ files[LOCK_FILE].pid = runs

(***************************************************************************)
(* A run without -i on a directory in a terminal state.                    *)
(***************************************************************************)
\* the directory holds a result file or sav.end.pt that this process did
\* not make
PriorTerminal ==
  \E name \in { "result.prime.pt", "result.composite.pt", "result.error.pt", "sav.end.pt" } :
     Exists(name) /\ files[name].pid # runs

\* gmprime -d dir h n, without -i, on such a directory
TerminalRun == checkpoint_dir = "dir" /\ ~restore /\ ~force /\ PriorTerminal

\* the status the directory asks for
StatusOfDirectory ==
  IF Exists("result.prime.pt") THEN 0
  ELSE IF Exists("result.composite.pt") THEN 1
  ELSE 6

\* the process is before the Lucas setup and before any rotation, or ended
BeforeLucas == pc \in { "start", "prefilter", "initialize_checkpoint", "done", "crashed" }

\* the step ends the process with an exit status other than those of a
\* directory that cannot be accessed or is locked
ExitsWithDirectory ==
  /\ pc \notin Ended
  /\ pc' = "done"
  /\ exit_status' \notin { << EXIT_CHKPT_ACCESS >>, << EXIT_LOCKED >> }

\* the step of such a run stays before the Lucas setup and the rotation,
\* changes no chk.*, sav.* or result.* file, and when it ends the process
\* the status is the one the directory asks for
StopsOnTerminal ==
  /\ BeforeLucas'
  /\ \A name \in DataFiles : files'[name] = files[name]
  /\ v1' = 0 /\ u_term' = 0 /\ jacobi_evals' = 0
  /\ ExitsWithDirectory => exit_status' = << StatusOfDirectory >>

RollingOrder == << "chk.cur.pt", "chk.prev-0.pt", "chk.prev-1.pt", "chk.prev-2.pt" >>

\* the position in RollingOrder of the first file that ends with the
\* sentinel, 0 when there is none
FirstComplete ==
  IF \E k \in 1..Len(RollingOrder) : IsComplete(files[RollingOrder[k]])
  THEN CHOOSE k \in 1..Len(RollingOrder) :
         /\ IsComplete(files[RollingOrder[k]])
         /\ \A j \in 1..(k - 1) : ~IsComplete(files[RollingOrder[j]])
  ELSE 0

\* the process runs from the state serialized into the file
RunsFrom(f) ==
  /\ pc \notin Ended
  /\ h = f.h /\ n = f.n /\ i = f.i /\ v1 = f.v1 /\ u_term = f.u

\* C24: a process started without h and n, once restore_checkpoint() has
\* been called on a directory with a complete rolling file, runs from the
\* (h, n, i, v1, U) serialized into the first of chk.cur.pt, chk.prev-0.pt,
\* chk.prev-1.pt, chk.prev-2.pt that ends with the sentinel
C24_RestoreNewestComplete ==
  (restore /\ pc \notin { "start", "crashed" } /\ FirstComplete # 0)
     => RunsFrom(files[RollingOrder[FirstComplete]])

(***************************************************************************)
(* Resuming an interrupted test.                                           *)
(***************************************************************************)
\* chk.cur.pt is the whole checkpoint that an earlier process of the test
\* left at a term before the last: without kills, that process was ended by
\* a recorded SIGINT or SIGHUP, with status 7
InterruptedTest ==
  /\ IsComplete(files[CHKPT_CUR_FILE])
  /\ files[CHKPT_CUR_FILE].pid < runs
  /\ FIRST_TERM_INDEX <= files[CHKPT_CUR_FILE].i
  /\ files[CHKPT_CUR_FILE].i < files[CHKPT_CUR_FILE].n

\* the exit status of one uninterrupted run of the test of the file
UninterruptedStatus(f) ==
  IF IsPrime(f.h * Pow2(f.n) - 1) THEN EXIT_IS_PRIME ELSE EXIT_IS_COMPOSITE

\* C25: a process started without h and n on the directory of a test that
\* was ended at a term i < n, once it has ended, has ended with the exit
\* status of one uninterrupted run of that test
C25_ResumeEquivalence ==
  (restore /\ pc = "done" /\ InterruptedTest)
     => exit_status = << UninterruptedStatus(files[CHKPT_CUR_FILE]) >>

(***************************************************************************)
(* The terms of a run with a checkpoint directory and of a run without.    *)
(***************************************************************************)
\* the v(1) of the test of h*2^n-1: 4 when 3 does not divide h, otherwise
\* the first of the search order with both Jacobi symbols right
PlainV1(hh, nn) ==
  IF hh % 3 # 0 THEN 4
  ELSE SearchCandidate(
         CHOOSE k \in 0..x_tbl_len :
           /\ RodsethCondition(SearchCandidate(k), RieselCand(hh, nn))
           /\ \A j \in 0..(k - 1) :
                ~RodsethCondition(SearchCandidate(j), RieselCand(hh, nn)))

\* the term U(k) of the test of h*2^n-1: U(2) = V(h) mod N, and each later
\* term is made from the one before it by the loop body
RECURSIVE PlainTerm(_, _, _)
PlainTerm(hh, nn, k) ==
  IF k <= FIRST_TERM_INDEX
  THEN LucasV(hh, PlainV1(hh, nn), RieselCand(hh, nn))
  ELSE ModEngine(PlainTerm(hh, nn, k - 1), hh, nn)

\* the process is in the loop of main(), in a checkpoint() called from it,
\* or has left the loop and printed its verdict
InLoop ==
  /\ mode = "main"
  /\ \/ pc = "loop"
     \/ pc \in ({ "checkpoint" } \cup FileOpPositions) /\ chk.ret = "loop"
     \/ pc = "done" /\ stdout # << >> /\ TrivialVerdict(h, n) = ""

\* C26: with a checkpoint directory or without, whatever terms are
\* checkpointed and whatever alarms come, the process in the loop or in
\* one of its checkpoints holds the h, n and N of its input, the v(1) of
\* the test, 2 <= i <= n and u_term = U(i), the term the loop body makes
\* from U(2) in i - 2 passes; a checkpoint in progress was given these
\* values; and the verdict printed is "is prime" exactly when U(n) = 0
C26_SameTermsWithCheckpoints ==
  InLoop =>
    /\ h = NormalizeH(orig_h) /\ n = orig_n + NormalizeShift(orig_h)
    /\ riesel_cand = RieselCand(h, n)
    /\ v1 = PlainV1(h, n)
    /\ FIRST_TERM_INDEX <= i /\ i <= n
    /\ u_term = PlainTerm(h, n, i)
    /\ pc \in ({ "checkpoint" } \cup FileOpPositions) =>
         << chk.i, chk.v1, chk.u >> = << i, v1, u_term >>
    /\ pc = "done" =>
         /\ i = n
         /\ stdout = << VerdictLine(IF PlainTerm(h, n, n) = 0
                                    THEN "is prime" ELSE "is composite") >>

\* 5*2^4-1 = 79 with -m 2: the run checkpointed every term, 2, 3 and 4, and
\* printed the verdict of U(4) = 0
C26_Witness ==
  /\ InLoop /\ pc = "done" /\ checkpoint_dir = "dir"
  /\ h = 5 /\ n = 4 /\ i = 4 /\ multiple = 2
  /\ u_term = 0 /\ u_term = PlainTerm(5, 4, 4)
  /\ files[CHKPT_CUR_FILE].i = 4
  /\ files[CHKPT_PREV0_FILE].i = 3
  /\ files[CHKPT_PREV1_FILE].i = 2
  /\ exit_status = << EXIT_IS_PRIME >>

(***************************************************************************)
(* The order of the rolling files.                                         *)
(***************************************************************************)
\* file f was made after file g: by a later process, or by the same
\* process at a later term
WrittenLater(f, g) == f.pid > g.pid \/ (f.pid = g.pid /\ f.i > g.i)

\* C27: of any two of chk.cur.pt, chk.prev-0.pt, chk.prev-1.pt and
\* chk.prev-2.pt that exist, the one earlier in this list was written
\* later than the other, whatever the runs, the checkpoints and the kills
C27_RecencyOrder ==
  \A j \in 1..Len(RollingOrder) : \A k \in (j + 1)..Len(RollingOrder) :
     (Exists(RollingOrder[j]) /\ Exists(RollingOrder[k]))
        => WrittenLater(files[RollingOrder[j]], files[RollingOrder[k]])

\* the four files exist and are the work of three processes, two of them
\* killed or ended before the test was over
C27_Witness ==
  /\ \A k \in 1..Len(RollingOrder) : Exists(RollingOrder[k])
  /\ files[CHKPT_CUR_FILE].pid = 3
  /\ files[CHKPT_PREV0_FILE].pid = 2
  /\ files[CHKPT_PREV2_FILE].pid = 1

(***************************************************************************)
(* The lifetime of the lock.                                               *)
(***************************************************************************)
\* C28: the process that took the lock in setup_checkpoint() keeps it at
\* every step that does not end it (rotation, write, links, alarms,
\* interrupts recorded), and while it holds the lock the other process
\* cannot take it; every step that ends the process (a verdict, status 7,
\* a fatal error, a kill) leaves the lock free, and the other process that
\* runs its setup after that takes the lock although run.lock exists
C28_LockHeldUntilExit ==
  [][ /\ (lock_held /\ pc' \notin Ended) => lock_held'
      /\ (lock_held /\ lock_held') => ~other_lock'
      /\ pc' \in Ended => ~lock_held'
      /\ (pc \in Ended /\ Exists(LOCK_FILE) /\ OtherSetup) => other_lock' ]_vars

\* the process was ended with status 7 after it had taken the lock and
\* written a checkpoint; the other process then took the lock on the
\* run.lock that was still there, and wrote its own records into it
C28_Witness ==
  /\ pc = "done"
  /\ exit_status = << EXIT_SIGNAL >>
  /\ IsComplete(files[CHKPT_CUR_FILE])
  /\ ~lock_held
  /\ other_lock
  /\ files[LOCK_FILE].pid = -1

(***************************************************************************)
(* The two signal counters.                                                *)
(***************************************************************************)
\* a step of the running process after its setup
AfterSetup == pc # "initialize_checkpoint" /\ pc \notin Ended /\ pc' # "crashed"

Usec(tv) == tv[1] * USEC_PER_SEC + tv[2]

\* a difference with the negative ones made 0
ClampedAtZero(d) == IF d < 0 THEN 0 ELSE d

\* update_stats() has returned
StatsUpdated == mode = "update_stats" /\ pc = "returned"

\* C30: after update_stats(), the total of each CPU time is the restored
\* time plus the time used since the start of the run, the total wall
\* clock is the restored one plus the time between the two 'now' stamps,
\* and the total of each counter is the restored count plus the count since
\* the start of the run, every difference that is negative being taken as 0
C30_TotalsClamped ==
  StatsUpdated =>
    /\ \A c \in { "ru_utime", "ru_stime" } :
         Usec(total[c]) = Usec(restored[c])
                            + ClampedAtZero(Usec(current[c]) - Usec(beginrun[c]))
    /\ Usec(total.wall_clock) = Usec(restored.wall_clock)
                                  + ClampedAtZero(Usec(current.now) - Usec(beginrun.now))
    /\ \A c \in { "ru_minflt", "ru_majflt", "ru_inblock", "ru_oublock",
                  "ru_nvcsw", "ru_nivcsw" } :
         total[c] = restored[c] + ClampedAtZero(current[c] - beginrun[c])

(***************************************************************************)
(* The state of the loop: i, v1 and u_term.                                *)
(***************************************************************************)
\* the term U(k) modulo m of the sequence U(2) = V(h), U(k+1) = U(k)^2 - 2
RECURSIVE SquareTerm(_, _, _, _)
SquareTerm(k, hh, v, m) ==
  IF k <= FIRST_TERM_INDEX THEN LucasV(hh, v, m)
  ELSE LET before == SquareTerm(k - 1, hh, v, m)
       IN  (before * before - 2) % m

\* C31: in every state of a run after the setup (in the loop, in a
\* checkpoint called from it, or after its verdict), 2 <= i <= n, v1 >= 3,
\* 0 <= u_term < N and u_term is congruent modulo N to U(i), where
\* U(2) = V(h) and U(k+1) = U(k)^2 - 2; the u_term handed to a checkpoint()
\* call in progress is not negative and is below N
C31_LucasState ==
  InLoop =>
    /\ FIRST_TERM_INDEX <= i /\ i <= n
    /\ v1 >= 3
    /\ 0 <= u_term /\ u_term < riesel_cand
    /\ (u_term - SquareTerm(i, h, v1, riesel_cand)) % riesel_cand = 0
    /\ pc \in ({ "checkpoint" } \cup FileOpPositions) =>
         (0 <= chk.u /\ chk.u < riesel_cand)

\* 7*2^5-1 = 223 with a directory: the loop has made U(3) = 169 and
\* U(4) = 15 from U(2) = 49, the last with one subtraction of N, and the
\* checkpoint of term 4 is writing it
C31_Witness ==
  /\ InLoop /\ checkpoint_dir = "dir" /\ pc = "write_cur"
  /\ h = 7 /\ n = 5 /\ i = 4 /\ v1 = 4
  /\ u_prev = 169 /\ u_term = 15 /\ chk.u = u_term
  /\ u_term = SquareTerm(4, 7, 4, 223)
  /\ SubtractCount(ShiftAndAdd(u_prev, h, n), riesel_cand) = 1

(***************************************************************************)
(* The pair (r, s) of gen_u2's bit loop.                                   *)
(***************************************************************************)
\* gen_u2 is in its bit loop, for an odd h > 1
InLadder == mode = "gen_u0" /\ pc = "gen_u2_loop" /\ IS_ODD(h) /\ h > 1

\* the number formed by the bits of h above bit number bit: the bits the
\* loop has consumed when bit is the next one
BitsConsumed == h \div Pow2(bit + 1)

\* C32: in gen_u2 for odd h > 1, before the bit loop (r, s) = (V(1), V(2));
\* after each bit from the second highest down to bit 1, (r, s) is
\* congruent modulo N to (V(m), V(m+1)), m the number formed by the bits
\* of h consumed so far; and the final step for bit 0 returns an r that is
\* congruent to V(h) and lies in [0, N)
C32_LadderInvariant ==
  /\ InLadder =>
       /\ bit = HIGHBIT(h) - 1 => (BitsConsumed = 1 /\ r = v1 /\ s = v1 * v1 - 2)
       /\ (r - LucasVPair(BitsConsumed, v1, riesel_cand)[1]) % riesel_cand = 0
       /\ (s - LucasVPair(BitsConsumed, v1, riesel_cand)[2]) % riesel_cand = 0
  /\ (SetupReturned /\ lucas_ret = 0 /\ h > 1) =>
       /\ u_term = r
       /\ (r - LucasV(h, v1, riesel_cand)) % riesel_cand = 0
       /\ 0 <= r /\ r < riesel_cand

\* h = 13 = 1101b, n = 5: the loop has consumed the bits 1, 1 and 0 of h,
\* m = 6, and bit 1 is still to come
C32_Witness ==
  /\ InLadder /\ h = 13 /\ n = 5 /\ bit = 0 /\ BitsConsumed = 6
  /\ r = LucasVPair(6, v1, riesel_cand)[1]
  /\ s = LucasVPair(6, v1, riesel_cand)[2]

(***************************************************************************)
(* The subtraction loop of the loop body.                                  *)
(***************************************************************************)
\* C33: for every odd h < 2^n that reaches the loop and every u_term with
\* 0 <= u_term < N, the sum int(J/h) + (J mod h)*2^n + K of the loop body
\* is below 2N, so its loop "while u_term >= N" subtracts N at most once
\* and ends with a u_term below N
C33_AtMostOneSubtraction ==
  ModEngineReturned =>
    /\ ShiftAndAdd(u_prev, h, n) < 2 * riesel_cand
    /\ SubtractCount(ShiftAndAdd(u_prev, h, n), riesel_cand) <= 1
    /\ u_term = ShiftAndAdd(u_prev, h, n)
                  - SubtractCount(ShiftAndAdd(u_prev, h, n), riesel_cand) * riesel_cand
    /\ u_term < riesel_cand

\* h = 7, n = 3, N = 55, u_term = 27: 27^2 - 2 = 727 gives J = 90, K = 7,
\* the sum 12 + 6*8 + 7 = 67 is at least N, and one subtraction has
\* brought it to 12
C33_Witness ==
  /\ ModEngineReturned /\ h = 7 /\ n = 3 /\ u_prev = 27
  /\ ShiftAndAdd(u_prev, h, n) = 67
  /\ SubtractCount(ShiftAndAdd(u_prev, h, n), riesel_cand) = 1
  /\ u_term = 12

(***************************************************************************)
(* How far a run goes once SIGINT or SIGHUP is recorded.                   *)
(***************************************************************************)
\* a run with a checkpoint directory has recorded a SIGINT or a SIGHUP
EndRequested == mode = "main" /\ checkpoint_dir = "dir" /\ checkpoint_and_end # 0

\* the process is inside checkpoint()
InCheckpoint == pc \in ({ "checkpoint" } \cup FileOpPositions)

\* inside checkpoint(), or ended
InCheckpointOrDone == { "checkpoint", "done" } \cup FileOpPositions

\* C34: in a run with a checkpoint directory, once checkpoint_and_end is
\* not 0 the flag stays; the end of the setup goes into the checkpoint of
\* term 2; a loop pass that computes a further term goes straight into
\* the checkpoint of that term (the poll at the end of the pass); inside
\* checkpoint() no term is computed and the process does not
\* come back to the loop; and the end of that checkpoint, with chk.cur.pt
\* written whole for the current term, ends the process with status 7.  So
\* at most one further term is computed after the signal.
C34_AtMostOneMoreTerm ==
  [][ EndRequested =>
        /\ checkpoint_and_end' # 0
        /\ (pc = "setup_done" /\ pc' # pc) =>
             /\ pc' = "checkpoint"
             /\ << chk'.i, chk'.u >> = << FIRST_TERM_INDEX, u_term >>
        /\ (pc = "loop" /\ (i' # i \/ u_term' # u_term)) =>
             /\ i' = i + 1
             /\ pc' = "checkpoint"
             /\ << chk'.i, chk'.u >> = << i', u_term' >>
        /\ InCheckpoint =>
             /\ i' = i /\ u_term' = u_term
             /\ pc' \in InCheckpointOrDone
        /\ (pc = "checkpoint_end" /\ pc' # pc) =>
             /\ CurIsCurrent
             /\ pc' = "done" /\ exit_status' = << EXIT_SIGNAL >> ]_vars

\* 3*2^5-1 without -m: term 3 is checkpointed only after a signal.  A
\* SIGINT came in the loop at i = 2, the pass made term 3, its checkpoint
\* was written and the process has ended with status 7
C34_Witness ==
  /\ mode = "main" /\ checkpoint_dir = "dir" /\ multiple = 0
  /\ h = 3 /\ n = 5 /\ i = 3 /\ pc = "done"
  /\ checkpoint_and_end # 0 /\ checkpoint_alarm = 0
  /\ exit_status = << EXIT_SIGNAL >>
  /\ files[CHKPT_CUR_FILE].i = 3 /\ IsComplete(files[CHKPT_CUR_FILE])
  /\ files[CHKPT_CUR_FILE].u = u_term
  /\ files[CHKPT_PREV0_FILE].i = 2

(***************************************************************************)
(* Termination of a run that is not interrupted.                           *)
(***************************************************************************)
\* the odd h and the n that the arguments stand for
NormalH == NormalizeH(orig_h)
NormalN == orig_n + NormalizeShift(orig_h)

\* gmprime [-d dir] h n whose odd h and n are testable with n >= 2
TestableRun ==
  /\ mode = "main" /\ ~restore
  /\ NormalH >= 1 /\ NormalN >= 2 /\ NormalH < Pow2(NormalN)

\* the same, and the trivial tests do not decide
LoopRun == TestableRun /\ TrivialVerdict(NormalH, NormalN) = ""

\* setup_checkpoint() could not use or lock the directory
DirRefused == pc = "done" /\ exit_status \in { << EXIT_CHKPT_ACCESS >>, << EXIT_LOCKED >> }

\* the run has left the loop with i = n after n - 2 passes of the loop body
\* from U(2) and has ended with the verdict of u_term
VerdictAfterLoop ==
  /\ pc = "done" /\ h >= 1 /\ n >= FIRST_TERM_INDEX /\ i = n
  /\ u_term = PlainTerm(h, n, n)
  /\ n = FIRST_TERM_INDEX => u_prev = 0
  /\ IF u_term = 0
     THEN exit_status = << EXIT_IS_PRIME >> /\ stdout = << VerdictLine("is prime") >>
     ELSE exit_status = << EXIT_IS_COMPOSITE >> /\ stdout = << VerdictLine("is composite") >>

\* every pass of the loop adds one to i and applies the loop body once
OneTermPerPass ==
  (pc = "loop" /\ << i, u_term >>' # << i, u_term >>) =>
    (i' = i + 1 /\ i' <= n /\ u_term' = ModEngine(u_term, h, n))

C36_EndImpliesResult ==
  files[SAVE_END_FILE].ino # << >> => ResultsPresent(files) # { }

(***************************************************************************)
(* The save and result files are written once.                             *)
(***************************************************************************)
\* the names that setup_chkpt_links() links chk.cur.pt to
LinkedNames ==
  { SAVE_FIRST_FILE, SAVE_NEAR_FILE, SAVE_N1_FILE, SAVE_END_FILE,
    RESULT_PRIME_FILE, RESULT_COMPOSITE_FILE, RESULT_ERROR_FILE }

\* the name the next link() call of setup_chkpt_links() is for, "" when the
\* process is not at a link() call
NextLinkName ==
  IF pc = "setup_chkpt_links" THEN LinkTarget(n, chk.i, chk.u)
  ELSE IF pc = "link_end" THEN SAVE_END_FILE
  ELSE ""

\* C37: a step of a checkpoint() call, in the first run or in a later one,
\* whole or cut short by a kill, leaves every existing sav.u2.pt,
\* sav.near.pt, sav.n-1.pt, sav.end.pt and result.*.pt as the same file with
\* the same contents; and a link() onto a name that exists changes no file
\* and ends the process with status 86
C37_SavedFilesWrittenOnce ==
  [][ (mode = "main" /\ InCheckpoint) =>
        /\ \A name \in LinkedNames :
             files[name].ino # << >> => files'[name] = files[name]
        /\ ( /\ NextLinkName # "" /\ files[NextLinkName].ino # << >>
             /\ pc' \notin { pc, "crashed" } ) =>
             /\ files' = files
             /\ pc' = "done" /\ exit_status' = << 86 >> ]_vars

\* a second run without -i of 3*2^3-1 has rotated the chk.cur.pt of the
\* first run away, written its own and then failed to link it onto the
\* sav.n-1.pt that the first run had made: status 86, and sav.n-1.pt is
\* still the file of the first run
C37_Witness ==
  /\ pc = "done" /\ ~force /\ runs = 2
  /\ exit_status = << 86 >>
  /\ chk.i = 2 /\ n = 3
  /\ files[SAVE_N1_FILE].pid = 1 /\ IsComplete(files[SAVE_N1_FILE])
  /\ files[CHKPT_CUR_FILE].pid = 2 /\ IsComplete(files[CHKPT_CUR_FILE])
  /\ files[CHKPT_PREV0_FILE].pid = 1

(***************************************************************************)
(* The rolling files of one directory after several runs.                  *)
(***************************************************************************)
\* the names of the rolling files that hold a complete checkpoint
CompleteRolling == { k \in 1..Len(RollingOrder) : IsComplete(files[RollingOrder[k]]) }

\* C38: whatever the runs on the directory, a run without -i on the files
\* of an interrupted run included, the complete files among chk.cur.pt,
\* chk.prev-0.pt, chk.prev-1.pt and chk.prev-2.pt record the same h and n,
\* and their term indices do not grow from chk.cur.pt to chk.prev-2.pt
C38_RollingSameTestAndOrdered ==
  \A j \in CompleteRolling : \A k \in CompleteRolling :
     j < k =>
       /\ files[RollingOrder[j]].h = files[RollingOrder[k]].h
       /\ files[RollingOrder[j]].n = files[RollingOrder[k]].n
       /\ files[RollingOrder[j]].i >= files[RollingOrder[k]].i

(***************************************************************************)
(* The arguments main() gives to checkpoint().                             *)
(***************************************************************************)
\* main() has called checkpoint() and the firewall has not yet run
CheckpointCalled == mode = "main" /\ pc = "checkpoint"

\* C39: every call of checkpoint() that main() makes passes the firewall of
\* checkpoint(): with valid_test true, h >= 1, n >= 2, 2 <= i <= n and
\* v1 >= 3; with valid_test false, i = 0 and v1 = 0; and no run ends with
\* status 87
C39_CallsPassFirewall ==
  /\ CheckpointCalled =>
       /\ h >= 1 /\ ~ULess(n, 2)
       /\ chk.valid_test =>
            (~ULess(chk.i, 2) /\ ~ULess(n, chk.i) /\ ~ULess(chk.v1, 3))
       /\ ~chk.valid_test => (chk.i = 0 /\ chk.v1 = 0)
       /\ ~CheckpointFirewall(checkpoint_dir, chk.valid_test, h, n, chk.i, chk.v1)
  /\ exit_status # << 87 >>

====
